---------------------------- MODULE Spec2Model ----------------------------
(***************************************************************************)
(* Guard chain validation engine of Final_engine: the retry controller,    *)
(* the guard registry and the pipeline's guard chain, the date guard, the  *)
(* immutable guard and the schedule guard with its foreshadow ledger.      *)
(*                                                                         *)
(* Each component has its own specification over its own variables; the    *)
(* variables of the other components stay as Init leaves them.             *)
(***************************************************************************)
EXTENDS Integers, Sequences, FiniteSets, TLC

VARIABLES
    rc,          \* run_with_retry: the frame of the current/last call
    guards,      \* GuardRegistry._guards: order -> guard class (a dict, in insertion order)
    sys_modules, \* the guard modules in Python's import cache
    regRes,      \* outcome of the last registry operation
    pipe,        \* run_pipeline / run_guards_auto_registry frame
    episode_dates, \* projects/<p>/data/episode_dates.json, per project
    dateRes,     \* what the last DateGuard.check returned or raised
    immutable_snapshot, \* projects/<p>/data/immutable_snapshot.json, per project
    immRes,      \* what the last ImmutableGuard.check was given and returned or raised
    foreshadow,  \* projects/<p>/data/foreshadow.json, per project
    schedRes,    \* what the last operation on the foreshadow ledger returned or raised
    relation_matrix, \* projects/<p>/data/relation_matrix.json, per project
    relRes,      \* what the last RelationGuard.check was given and returned or raised
    anchors,     \* projects/<p>/data/anchors.json, per project
    anchorRes,   \* what the last AnchorGuard.check was given and returned or raised
    rules,       \* projects/<p>/data/rules.json, per project
    ruleRes,     \* what the last RuleGuard.check was given and returned or raised
    emoRes,      \* what the last classify_emotions was given and returned
    paceRes,     \* what the last PacingGuard.check was given and returned or raised
    inflight,    \* per caller: the ledger operation it is in, between its load and its save
    done,        \* the updates the completed ledger operations of the callers made
    overlapped,  \* whether two ledger operations have been in flight at once
    wrapped      \* the guard check run_with_retry is wrapped around, and how it last ended

registryVars == <<guards, sys_modules, regRes, pipe>>
dateVars == <<episode_dates, dateRes>>
immVars == <<immutable_snapshot, immRes>>
schedVars == <<foreshadow, schedRes>>
relVars == <<relation_matrix, relRes>>
anchorVars == <<anchors, anchorRes>>
ruleVars == <<rules, ruleRes>>
concVars == <<inflight, done, overlapped>>

extraVars == <<emoRes, paceRes, concVars, wrapped>>

readVars == <<relVars, anchorVars, ruleVars, extraVars>>

vars == <<rc, registryVars, dateVars, immVars, schedVars, readVars>>

(***************************************************************************)
(* Python values                                                           *)
(***************************************************************************)
\* Python's None where a string is expected.
PyNone == "None"

\* Truthiness of an optional string: None and "" are falsy.
Falsy(s) == s \in {PyNone, ""}

Last(s) == s[Len(s)]

(***************************************************************************)
(* Retry controller (src/core/retry_controller.py)                         *)
(***************************************************************************)
\* Largest max_retry the model passes to run_with_retry.
MaxRetryArg == 3

FuncName == "test_func"

\* A RetryException as a guard raises it (src/exceptions.py).
RetryException(message, flags, guard_name) ==
    [kind |-> "RetryException", message |-> message,
     flags |-> flags, guard_name |-> guard_name]

\* What one invocation of the wrapped function can do.
FuncReturns == {[kind |-> "return", value |-> v] : v \in {"success", "other"}}

FuncRetryRaises ==
    {RetryException(m, f, g) :
        m \in {"failed"}, f \in {{}, {"flag"}}, g \in {PyNone, "test_guard"}}

FuncOtherRaises == {[kind |-> "Exception", name |-> n] : n \in {"ValueError"}}

FuncOutcomes == FuncReturns \cup FuncRetryRaises \cup FuncOtherRaises

\* str(e) of a RetryException: "[guard] message (flags: ...)".
StrOf(e) ==
    <<IF Falsy(e.guard_name) THEN "" ELSE e.guard_name, e.message, e.flags>>

BackoffDoubling(attempt) == 2 ^ attempt

\* backoff = 0.5 * (attempt + 1), in units of half a second.
Backoff(attempt) == attempt + 1

\* What the run did, in order: func(*args, **kwargs) and time.sleep(backoff).
CallEvent(attempt, outcome) == [ev |-> "call", attempt |-> attempt, outcome |-> outcome]

SleepEvent(backoff) == [ev |-> "sleep", backoff |-> backoff]

\* The frame before any call.
RcIdle ==
    [pc |-> "idle", max_retry |-> 0, unit_test_mode |-> FALSE,
     fast_mode |-> FALSE, attempt |-> 0,
     messages |-> <<>>, trace |-> <<>>, result |-> [kind |-> "none"]]

\* Entry of run_with_retry: messages = [], the loop starts at attempt 0.
\* unit_test_mode and fast_mode are the environment the call runs in
\* (UNIT_TEST_MODE == "1", FAST_MODE == "1"); only the first is ever read.
run_with_retry(max_retry, unit_test_mode, fast_mode) ==
    /\ rc.pc # "loop"
    /\ rc' = [RcIdle EXCEPT !.pc = "loop", !.max_retry = max_retry,
                            !.unit_test_mode = unit_test_mode,
                            !.fast_mode = fast_mode]
    /\ UNCHANGED <<registryVars, dateVars, immVars, schedVars, readVars>>

FinalExceptionNoFallback(e, messages, max_retry, unit_test_mode) ==
    RetryException([fmt |-> "joined", parts |-> messages], e.flags, e.guard_name)

\* The exception raised after the final failed attempt.
FinalException(e, messages, max_retry, unit_test_mode) ==
    LET guard_name == IF Falsy(e.guard_name) THEN FuncName ELSE e.guard_name
        combined == IF unit_test_mode
                    THEN [fmt |-> "joined", parts |-> messages]
                    ELSE [fmt |-> "summary", guard |-> guard_name,
                          attempts |-> max_retry + 1]
    IN  RetryException(combined, e.flags, guard_name)

GivesUpEarly(attempt, max_retry) == attempt + 1 >= max_retry

\* What happens after attempt `attempt` raised a RetryException: the
\* controller gives up exactly when attempt == max_retry.
GivesUp(attempt, max_retry) == attempt = max_retry

\* except RetryException: record the message; raise after the final
\* attempt, otherwise sleep and go to the next iteration.
OnRetryException(e) ==
    LET msgs == Append(rc.messages, StrOf(e))
        called == Append(rc.trace, CallEvent(rc.attempt, e))
    IN  IF GivesUp(rc.attempt, rc.max_retry)
        THEN rc' = [rc EXCEPT !.pc = "raised", !.messages = msgs,
                              !.trace = called,
                              !.result = FinalException(e, msgs, rc.max_retry,
                                                        rc.unit_test_mode)]
        ELSE rc' = [rc EXCEPT !.messages = msgs,
                              !.trace = Append(called, SleepEvent(Backoff(rc.attempt))),
                              !.attempt = rc.attempt + 1]

OnOtherExceptionRetried(e) ==
    rc' = [rc EXCEPT !.trace = Append(Append(rc.trace, CallEvent(rc.attempt, e)),
                                      SleepEvent(Backoff(rc.attempt))),
                     !.attempt = rc.attempt + 1]

\* except Exception: logged and re-raised unchanged, no retry.
OnOtherException(e) ==
    rc' = [rc EXCEPT !.pc = "propagated", !.result = e,
                     !.trace = Append(rc.trace, CallEvent(rc.attempt, e))]

\* One iteration of the for loop: invoke func and handle what it does.
Attempt(outcome) ==
    /\ rc.pc = "loop"
    /\ CASE outcome.kind = "return" ->
                rc' = [rc EXCEPT !.pc = "returned", !.result = outcome,
                                 !.trace = Append(rc.trace, CallEvent(rc.attempt, outcome))]
         [] outcome.kind = "RetryException" -> OnRetryException(outcome)
         [] OTHER -> OnOtherException(outcome)
    /\ UNCHANGED <<registryVars, dateVars, immVars, schedVars, readVars>>

RetryNext ==
    \/ \E m \in 0..MaxRetryArg, u \in BOOLEAN, f \in BOOLEAN :
          run_with_retry(m, u, f)
    \/ \E o \in FuncOutcomes : Attempt(o)

\* The invocations of func in the run's trace, in order.
Calls == SelectSeq(rc.trace, LAMBDA e : e.ev = "call")

\* C1: a function that raises RetryException k <= max_retry times and then
\* returns v makes run_with_retry return v after exactly k+1 invocations;
\* max_retry+1 consecutive RetryExceptions make it raise RetryException after
\* exactly max_retry+1 invocations, and while it is still looping it has made
\* at most max_retry invocations, all of them failed, so it never invokes
\* func beyond that.
C1_RetryCount ==
    LET n == Len(Calls)
        failedUpTo(m) == \A i \in 1..m : Calls[i].outcome.kind = "RetryException"
    IN  /\ rc.pc = "returned" =>
            /\ n >= 1 /\ n - 1 <= rc.max_retry
            /\ failedUpTo(n - 1)
            /\ Calls[n].outcome.kind = "return"
            /\ rc.result = Calls[n].outcome
        /\ rc.pc = "raised" =>
            /\ n = rc.max_retry + 1
            /\ failedUpTo(n)
            /\ rc.result.kind = "RetryException"
        /\ rc.pc = "loop" => n <= rc.max_retry /\ failedUpTo(n)
        /\ \A i \in 1..n : Calls[i].attempt = i - 1

C1_Witness ==
    /\ rc.pc = "returned" /\ rc.max_retry = 2 /\ Len(Calls) = 3
    /\ rc.result.value = "success"

\* C2: an exception other than RetryException, on whichever attempt func
\* raises it, ends the run at once: it is the last thing in the trace (no
\* later invocation, no sleep after it) and it is what run_with_retry raises.
C2_OtherPropagates ==
    /\ \A i \in 1..Len(rc.trace) :
          (rc.trace[i].ev = "call" /\ rc.trace[i].outcome.kind = "Exception") =>
              /\ i = Len(rc.trace)
              /\ rc.pc = "propagated"
              /\ rc.result = rc.trace[i].outcome
    /\ rc.pc = "propagated" =>
          /\ Len(rc.trace) >= 1
          /\ Last(rc.trace).ev = "call"
          /\ Last(rc.trace).outcome.kind = "Exception"

C2_Witness ==
    /\ rc.pc = "propagated" /\ Len(Calls) = 2
    /\ Calls[1].outcome.kind = "RetryException"
    /\ rc.result.name = "ValueError"

\* The time.sleep calls of the run's trace, in order, in half-seconds.
Sleeps == SelectSeq(rc.trace, LAMBDA e : e.ev = "sleep")

C19_FastModeSkipsBackoff ==
    rc.fast_mode => \A j \in 1..Len(Sleeps) : Sleeps[j].backoff = 0

\* C20: when every attempt failed, what run_with_retry raises is a
\* RetryException whose guard_name is the one the last failure carries, or
\* the wrapped function's name when that failure carries none, and whose
\* flags are those of the last failed attempt.
C20_FinalCarriesLastFailure ==
    rc.pc = "raised" =>
        LET last == Calls[Len(Calls)].outcome
        IN  /\ last.kind = "RetryException"
            /\ rc.result.kind = "RetryException"
            /\ rc.result.guard_name =
                  (IF last.guard_name = PyNone THEN FuncName ELSE last.guard_name)
            /\ rc.result.flags = last.flags

\* The first failure names its guard and carries a flag, the last one does
\* neither: the raised exception takes the function's name and no flag.
C20_Witness ==
    /\ rc.pc = "raised" /\ Len(Calls) = 2
    /\ Calls[1].outcome.guard_name = "test_guard"
    /\ Calls[1].outcome.flags = {"flag"}
    /\ Calls[2].outcome.guard_name = PyNone
    /\ Calls[2].outcome.flags = {}
    /\ rc.result.guard_name = FuncName
    /\ rc.result.flags = {}

(***************************************************************************)
(* Guard registry (src/core/guard_registry.py)                             *)
(***************************************************************************)
\* Largest order a caller registers a guard of its own under.
MaxOrder == 3

\* Guard classes callers define and register themselves (as the tests do).
UserGuards == {"FirstGuard", "SecondGuard"}

\* Python's sorted() on a list of integers: insertion sort.
RECURSIVE InsertSorted(_, _)
InsertSorted(x, s) ==
    IF s = <<>> THEN <<x>>
    ELSE IF x <= Head(s) THEN <<x>> \o s
    ELSE <<Head(s)>> \o InsertSorted(x, Tail(s))

RECURSIVE sorted(_)
sorted(s) == IF s = <<>> THEN <<>> ELSE InsertSorted(Head(s), sorted(Tail(s)))

\* dict.keys(): the keys in insertion order.
Keys(d) == [i \in 1..Len(d) |-> d[i].order]

\* `order in self._guards`
Bound(d, order) == \E i \in 1..Len(d) : d[i].order = order

\* self._guards[order]
Lookup(d, order) == d[CHOOSE i \in 1..Len(d) : d[i].order = order].cls

RefusedNever(d, order) == FALSE

\* The guard of register(): a bound order is refused.
Refused(d, order) == Bound(d, order)

\* GuardRegistry.register on the dict d: <<dict afterwards, outcome>>.
register(d, order, guard_class) ==
    IF Refused(d, order)
    THEN <<d, [op |-> "register", order |-> order, cls |-> guard_class,
               raised |-> "ValueError", existing |-> Lookup(d, order),
               incoming |-> guard_class]>>
    ELSE <<Append(d, [order |-> order, cls |-> guard_class]),
           [op |-> "register", order |-> order, cls |-> guard_class,
            raised |-> PyNone, existing |-> PyNone, incoming |-> guard_class]>>

InsertionOrders(d) == Keys(d)

\* The orders get_sorted_guards walks: sorted(self._guards.keys()).
sorted_orders(d) == sorted(Keys(d))

\* GuardRegistry.get_sorted_guards
get_sorted_guards(d) ==
    LET so == sorted_orders(d) IN [i \in 1..Len(so) |-> Lookup(d, so[i])]

\* GuardRegistry.get_registered_orders
get_registered_orders(d) == sorted(Keys(d))

\* The guard modules clear_registry evicts, in the order the pipeline imports them.
guard_module_names ==
    <<"anchor_guard", "critique_guard", "date_guard", "emotion_guard",
      "immutable_guard", "lexi_guard", "pacing_guard", "relation_guard",
      "rule_guard", "schedule_guard">>

\* The @register_guard(order=...) decorators of the guard modules; a module
\* without the decorator registers nothing when it is executed.
Decorated ==
    [emotion_guard  |-> [order |-> 2, cls |-> "EmotionGuard"],
     schedule_guard |-> [order |-> 3, cls |-> "ScheduleGuard"],
     date_guard     |-> [order |-> 5, cls |-> "DateGuard"],
     rule_guard     |-> [order |-> 7, cls |-> "RuleGuard"],
     relation_guard |-> [order |-> 8, cls |-> "RelationGuard"],
     pacing_guard   |-> [order |-> 9, cls |-> "PacingGuard"]]

\* `import src.plugins.<m>`: a cached module is not executed again; executing
\* a decorated module registers its guard, and an import that raises leaves
\* the module out of the cache.  <<dict, cache, error>>
import_module(d, cache, m) ==
    IF m \in cache THEN <<d, cache, PyNone>>
    ELSE IF m \in DOMAIN Decorated
         THEN LET r == register(d, Decorated[m].order, Decorated[m].cls)
              IN  IF r[2].raised = PyNone
                  THEN <<r[1], cache \cup {m}, PyNone>>
                  ELSE <<d, cache, r[2].raised>>
         ELSE <<d, cache \cup {m}, PyNone>>

\* The ten imports at the head of run_guards_auto_registry, in order; the
\* first import that raises ends them.
RECURSIVE import_all(_, _, _)
import_all(d, cache, i) ==
    IF i > Len(guard_module_names) THEN <<d, cache, PyNone>>
    ELSE LET r == import_module(d, cache, guard_module_names[i])
         IN  IF r[3] = PyNone THEN import_all(r[1], r[2], i + 1) ELSE r

PipeIdle ==
    [pc |-> "idle", draft |-> "", guard_classes |-> <<>>, attempted |-> <<>>,
     firstFailed |-> 0, result |-> PyNone]

\* registry.register(order, guard_class) / @register_guard(order) on a class
\* the caller defines.
Register(order, guard_class) ==
    /\ pipe.pc # "guards"
    /\ LET r == register(guards, order, guard_class)
       IN  guards' = r[1] /\ regRes' = r[2]
    /\ pipe' = PipeIdle
    /\ UNCHANGED <<rc, sys_modules, dateVars, immVars, schedVars, readVars>>

\* GuardRegistry.clear: self._guards.clear()
Clear ==
    /\ pipe.pc # "guards"
    /\ guards' = <<>>
    /\ regRes' = [op |-> "clear"]
    /\ pipe' = PipeIdle
    /\ UNCHANGED <<rc, sys_modules, dateVars, immVars, schedVars, readVars>>

\* Mutant: the guard modules stay in the import cache.
PoppedNone(cache) == {}

\* `if module_name in sys.modules: sys.modules.pop(module_name)` over
\* guard_module_names: the modules that leave the cache.
popped_modules(cache) ==
    cache \cap {guard_module_names[i] : i \in 1..Len(guard_module_names)}

\* clear_registry(): clears the registry and pops the guard modules from
\* sys.modules.
clear_registry ==
    /\ pipe.pc # "guards"
    /\ guards' = <<>>
    /\ sys_modules' = sys_modules \ popped_modules(sys_modules)
    /\ regRes' = [op |-> "clear_registry", popped |-> popped_modules(sys_modules)]
    /\ pipe' = PipeIdle
    /\ UNCHANGED <<rc, dateVars, immVars, schedVars, readVars>>

(***************************************************************************)
(* Guard chain of the pipeline (src/main.py)                               *)
(***************************************************************************)
Drafts == {"draft A", "draft B"}

\* The guard names run_guards_auto_registry dispatches on.
DispatchedGuards ==
    {"LexiGuard", "EmotionGuard", "ScheduleGuard", "ImmutableGuard", "DateGuard",
     "AnchorGuard", "RuleGuard", "RelationGuard", "PacingGuard", "CritiqueGuard"}

\* What one iteration of the guard loop can meet: the check passes, the
\* guard raises RetryException, the constructor or the check raises another
\* Exception, or the iteration ends in `continue` (an unknown guard name, or
\* ImmutableGuard without characters.json).
GuardOutcomes(guard_name) ==
    IF guard_name \notin DispatchedGuards THEN {"skipped", "error"}
    ELSE IF guard_name = "ImmutableGuard" THEN {"passed", "retry", "error", "skipped"}
    ELSE {"passed", "retry", "error"}

ChainStopsOnError(outcome) == outcome \in {"passed", "skipped", "retry"}

\* The two except clauses of the loop body, `except RetryException` and
\* `except Exception`, print a warning and let the loop go on.
ChainContinues(outcome) == outcome \in {"passed", "skipped", "retry", "error"}

\* run_pipeline up to the head of the guard loop: the draft is generated,
\* the guard modules are imported and the sorted guard list is taken.
run_pipeline(draft) ==
    /\ pipe.pc # "guards"
    /\ LET r == import_all(guards, sys_modules, 1)
       IN  /\ guards' = r[1]
           /\ sys_modules' = r[2]
           /\ pipe' = IF r[3] = PyNone
                      THEN [PipeIdle EXCEPT !.pc = "guards", !.draft = draft,
                                            !.guard_classes = get_sorted_guards(r[1])]
                      ELSE [PipeIdle EXCEPT !.pc = "import_error", !.draft = draft,
                                            !.result = r[3]]
    /\ regRes' = [op |-> "run_pipeline"]
    /\ UNCHANGED <<rc, dateVars, immVars, schedVars, readVars>>

\* One iteration of `for guard_class in guard_classes`.
GuardStep(outcome) ==
    LET idx == Len(pipe.attempted) + 1 IN
    /\ pipe.pc = "guards"
    /\ idx <= Len(pipe.guard_classes)
    /\ outcome \in GuardOutcomes(pipe.guard_classes[idx])
    /\ pipe' = [pipe EXCEPT
                  !.attempted = Append(@, pipe.guard_classes[idx]),
                  !.firstFailed = IF @ = 0 /\ outcome \in {"retry", "error"}
                                  THEN idx ELSE @,
                  !.pc = IF ChainContinues(outcome) THEN @ ELSE "chain_error",
                  !.result = IF ChainContinues(outcome) THEN @ ELSE outcome]
    /\ UNCHANGED <<rc, guards, sys_modules, regRes, dateVars, immVars, schedVars, readVars>>

\* The loop is over: run_pipeline returns the draft with its context line.
PipelineReturn ==
    /\ pipe.pc = "guards"
    /\ Len(pipe.attempted) = Len(pipe.guard_classes)
    /\ pipe' = [pipe EXCEPT !.pc = "returned", !.result = pipe.draft]
    /\ UNCHANGED <<rc, guards, sys_modules, regRes, dateVars, immVars, schedVars, readVars>>

RegistryNext ==
    \/ \E o \in 1..MaxOrder, g \in UserGuards : Register(o, g)
    \/ Clear
    \/ clear_registry
    \/ \E d \in Drafts : run_pipeline(d)
    \/ \E o \in {"passed", "retry", "error", "skipped"} : GuardStep(o)
    \/ PipelineReturn

(***************************************************************************)
(* Claims about the registry and the guard chain                           *)
(***************************************************************************)
\* The orders bound in the registry.
BoundOrders(d) == {d[i].order : i \in 1..Len(d)}

\* C3: register(order, guard_class) on a bound order raises ValueError, the
\* error names the existing and the incoming guard and the registry is left
\* as it was, whichever guard came first; on an unbound order it raises
\* nothing, binds the order to guard_class and keeps every other binding.
C3_RegisterDuplicate ==
    [][(regRes' # regRes /\ regRes'.op = "register") =>
          LET o == regRes'.order
              c == regRes'.cls
          IN  IF o \in BoundOrders(guards)
              THEN /\ regRes'.raised = "ValueError"
                   /\ regRes'.existing = Lookup(guards, o)
                   /\ regRes'.incoming = c
                   /\ guards' = guards
              ELSE /\ regRes'.raised = PyNone
                   /\ BoundOrders(guards') = BoundOrders(guards) \cup {o}
                   /\ Len(guards') = Len(guards) + 1
                   /\ Lookup(guards', o) = c
                   /\ \A k \in BoundOrders(guards) :
                         Lookup(guards', k) = Lookup(guards, k)]_vars

C3_Witness ==
    /\ regRes.op = "register" /\ regRes.raised = "ValueError"
    /\ regRes.existing = "SecondGuard" /\ regRes.incoming = "FirstGuard"
    /\ Lookup(guards, regRes.order) = "SecondGuard"

\* C4: get_sorted_guards() lists exactly the registered classes, one per bound
\* order, the class of the i-th smallest bound order at position i, whatever
\* order they were registered in.
C4_SortedGuards ==
    LET s == get_sorted_guards(guards)
        B == BoundOrders(guards)
    IN  /\ Len(s) = Cardinality(B)
        /\ Len(guards) = Cardinality(B)
        /\ \A k \in B : s[Cardinality({j \in B : j <= k})] = Lookup(guards, k)

\* Registered in descending order, listed ascending.
C4_Witness ==
    /\ Len(guards) = 3
    /\ guards[1].order > guards[2].order /\ guards[2].order > guards[3].order
    /\ get_sorted_guards(guards) = <<guards[3].cls, guards[2].cls, guards[1].cls>>

\* C5: the guard chain attempts the registered guards one after another in
\* ascending registry order; no guard outcome (RetryException or any other
\* Exception, from the constructor or the check) ends the chain, and when
\* the pipeline returns every guard has been attempted and the result is
\* the draft.
C5_ChainNeverStops ==
    LET B == BoundOrders(guards) IN
    /\ pipe.pc # "chain_error"
    /\ pipe.pc \in {"guards", "returned"} =>
          /\ Len(pipe.guard_classes) = Cardinality(B)
          /\ \A k \in B :
                pipe.guard_classes[Cardinality({j \in B : j <= k})] = Lookup(guards, k)
          /\ Len(pipe.attempted) <= Len(pipe.guard_classes)
          /\ \A i \in 1..Len(pipe.attempted) : pipe.attempted[i] = pipe.guard_classes[i]
    /\ pipe.pc = "returned" =>
          /\ pipe.attempted = pipe.guard_classes
          /\ pipe.result = pipe.draft

\* C17: after clear_registry the registry is empty and no guard module is
\* left in the import cache, and the imports of a pipeline run that follows
\* register every decorated guard again without a duplicate-order error.
C17_ClearThenReimport ==
    [][/\ regRes'.op = "clear_registry" =>
             /\ guards' = <<>>
             /\ get_sorted_guards(guards') = <<>>
             /\ \A i \in 1..Len(guard_module_names) : guard_module_names[i] \notin sys_modules'
       /\ (regRes.op = "clear_registry" /\ regRes'.op = "run_pipeline") =>
             /\ pipe'.pc = "guards"
             /\ \A m \in DOMAIN Decorated :
                   /\ m \in sys_modules'
                   /\ Bound(guards', Decorated[m].order)
                   /\ Lookup(guards', Decorated[m].order) = Decorated[m].cls
             /\ Len(guards') = Cardinality(DOMAIN Decorated)]_vars

\* clear_registry has emptied a registry whose guard modules were all
\* imported, and popped them from the cache.
C17_Witness ==
    /\ regRes.op = "clear_registry"
    /\ Cardinality(regRes.popped) = Len(guard_module_names)
    /\ guards = <<>>

\* C24: when the ten guard modules are imported right after clear_registry,
\* ten guards are registered, their orders are 1 to 10, and
\* get_sorted_guards lists DateGuard, AnchorGuard, RuleGuard, LexiGuard,
\* ScheduleGuard, EmotionGuard, ImmutableGuard, RelationGuard, PacingGuard,
\* CritiqueGuard.
C24_TenGuardsInOrder ==
    [][(regRes.op = "clear_registry" /\ regRes'.op = "run_pipeline") =>
          /\ Len(guards') = 10
          /\ get_registered_orders(guards') = <<1, 2, 3, 4, 5, 6, 7, 8, 9, 10>>
          /\ get_sorted_guards(guards') =
                <<"DateGuard", "AnchorGuard", "RuleGuard", "LexiGuard",
                  "ScheduleGuard", "EmotionGuard", "ImmutableGuard",
                  "RelationGuard", "PacingGuard", "CritiqueGuard">>]_vars

\* The first guard of the chain failed and the pipeline still ran the rest
\* and returned.
C5_Witness ==
    /\ pipe.pc = "returned" /\ pipe.firstFailed = 1
    /\ Len(pipe.attempted) >= 6 /\ pipe.result \in Drafts

(***************************************************************************)
(* Persisted stores (src/utils/path_helper.py)                             *)
(***************************************************************************)
\* Project ids; data_path(fname, project) = projects/<project>/data/<fname>.
Projects == {"default", "novel"}

\* A JSON file that does not exist.
MissingFile == [state |-> "missing", data |-> <<>>]

\* A JSON file holding `data`.
JsonFile(data) == [state |-> "ok", data |-> data]

\* A file whose text is not JSON: json.load raises JSONDecodeError.
InvalidJson == [state |-> "invalid_json", data |-> <<>>]

\* A file holding a JSON value of another type than the store's own: the
\* list [1, 2] where the store is an object, the object {"a": 1} where the
\* store is a list.
WrongTypeJson == [state |-> "wrong_type", data |-> <<>>]

\* An operation ended with an exception that is not RetryException.
Crash(exception) == [op |-> "crash", exception |-> exception]

(***************************************************************************)
(* Date guard (src/plugins/date_guard.py)                                  *)
(***************************************************************************)
\* Largest episode number the model checks.
MaxEpisode == 3

Episodes == 1..MaxEpisode

\* A date string "2024<sep>mm<sep>dd".
DateString(sep, m, d) == [sep |-> sep, m |-> m, d |-> d]

\* The empty string, and a key that the context does not have.
EmptyString == DateString("", 0, 0)
Absent == DateString("absent", 0, 0)

\* The strings a context carries: four dates in %Y-%m-%d (one of them the
\* 30th of February), one in %Y/%m/%d, one in neither format, and "".
DateInputs ==
    {DateString("-", 1, 3), DateString("-", 1, 5), DateString("-", 2, 1),
     DateString("-", 2, 30), DateString("/", 1, 5), DateString(".", 1, 3),
     EmptyString}

\* Days of the months of 2024.
DaysInMonth == <<31, 29, 31, 30, 31, 30, 31, 31, 30, 31, 30, 31>>

RECURSIVE DaysBefore(_)
DaysBefore(m) == IF m <= 1 THEN 0 ELSE DaysInMonth[m - 1] + DaysBefore(m - 1)

\* _parse_date returning None.
NotADate == 0

\* _parse_date: strptime with "%Y-%m-%d", then "%Y/%m/%d"; the value is the
\* day of the year 2024 (datetimes at midnight compare and subtract by day).
\* Python spells the method _parse_date.
parse_date(s) ==
    IF s.sep \in {"", "absent"} THEN NotADate
    ELSE IF /\ s.sep \in {"-", "/"}
            /\ s.m \in 1..12
            /\ s.d >= 1 /\ s.d <= DaysInMonth[s.m]
         THEN DaysBefore(s.m) + s.d
         ELSE NotADate

\* Contexts: `date`, `meta.date` and `episode_date`, each present or not.
Contexts ==
    [date : DateInputs \cup {Absent},
     meta_date : {Absent, DateString("-", 1, 5)},
     episode_date : {Absent, DateString("-", 2, 1)}]

\* _extract_episode_date: context["date"], else context["meta"]["date"],
\* else context["episode_date"], else None.
extract_episode_date(context) ==
    IF context.date # Absent THEN context.date
    ELSE IF context.meta_date # Absent THEN context.meta_date
    ELSE IF context.episode_date # Absent THEN context.episode_date
    ELSE Absent

\* str(k) and int(k) on the keys of the JSON object.
str(k) == ToString(k)
int(s) == CHOOSE n \in 0..(MaxEpisode + 1) : ToString(n) = s

\* _load_date_log: {int(k): v}; a missing or malformed file gives {}.
load_date_log(file) ==
    IF file.state = "ok"
    THEN [e \in {int(k) : k \in DOMAIN file.data} |-> file.data[str(e)]]
    ELSE <<>>

\* _save_date_log: {str(k): v} written to the file.
save_date_log(date_log) ==
    JsonFile([k \in {str(e) : e \in DOMAIN date_log} |-> date_log[CHOOSE e \in DOMAIN date_log : str(e) = k]])

SetItemFresh(date_log, k, v) == [e \in {k} |-> v]

\* date_log[episode_num] = current_date_str
SetItem(date_log, k, v) ==
    [e \in DOMAIN date_log \cup {k} |-> IF e = k THEN v ELSE date_log[e]]

\* max(previous_episodes)
Max(S) == CHOOSE x \in S : \A y \in S : y <= x

\* previous_episodes = [ep for ep in date_log.keys() if ep < episode_num]
previous_episodes(date_log, episode_num) == {ep \in DOMAIN date_log : ep < episode_num}

BackstepOrSame(current_date, previous_date) == current_date <= previous_date

\* `if current_date < previous_date`
Backstep(current_date, previous_date) == current_date < previous_date

\* The result dictionary of check, with what it raised.
DateResult(episode_num, current_date, previous_episode, previous_date, raised, days_backward, created) ==
    [op |-> "check", current_episode |-> episode_num, current_date |-> current_date,
     previous_episode |-> previous_episode, previous_date |-> previous_date,
     raised |-> raised, days_backward |-> days_backward,
     date_log_created |-> created]

\* _load_date_log catches FileNotFoundError, JSONDecodeError and ValueError;
\* `data.items()` on a list raises AttributeError, which it does not catch.
load_date_log_error(file) == IF file.state = "wrong_type" THEN "AttributeError" ELSE PyNone

DateGuard_checkAlwaysSaves(file, context, episode_num) ==
    <<save_date_log(SetItem(load_date_log(file), episode_num, extract_episode_date(context))),
      DateResult(episode_num, {extract_episode_date(context)}, {}, {}, FALSE, 0, FALSE)>>

\* DateGuard.check(context, episode_num) on the file: <<file afterwards, result>>.
\* An optional episode or date is a set with at most one element.
DateGuard_check(file, context, episode_num) ==
    LET current_date_str == extract_episode_date(context)
        current_date == parse_date(current_date_str)
        date_log == load_date_log(file)
        updated == save_date_log(SetItem(date_log, episode_num, current_date_str))
        prior == previous_episodes(date_log, episode_num)
    IN  IF current_date_str \in {Absent, EmptyString}
        THEN <<file, DateResult(episode_num, {}, {}, {}, FALSE, 0, FALSE)>>
        ELSE IF current_date = NotADate
        THEN <<file, DateResult(episode_num, {current_date_str}, {}, {}, FALSE, 0, FALSE)>>
        ELSE IF load_date_log_error(file) # PyNone
        THEN <<file, Crash(load_date_log_error(file))>>
        ELSE IF DOMAIN date_log = {}
        THEN <<updated, DateResult(episode_num, {current_date_str}, {}, {}, FALSE, 0, TRUE)>>
        ELSE IF prior = {}
        THEN <<updated, DateResult(episode_num, {current_date_str}, {}, {}, FALSE, 0, FALSE)>>
        ELSE LET previous_episode == Max(prior)
                 previous_date_str == date_log[previous_episode]
                 previous_date == parse_date(previous_date_str)
             IN  IF previous_date = NotADate
                 THEN <<updated, DateResult(episode_num, {current_date_str},
                                            {previous_episode}, {previous_date_str},
                                            FALSE, 0, FALSE)>>
                 ELSE IF Backstep(current_date, previous_date)
                 THEN <<file, DateResult(episode_num, {current_date_str},
                                         {previous_episode}, {previous_date_str},
                                         TRUE, previous_date - current_date, FALSE)>>
                 ELSE <<updated, DateResult(episode_num, {current_date_str},
                                            {previous_episode}, {previous_date_str},
                                            FALSE, 0, FALSE)>>

\* DateGuard(project=p).check(context, episode_num)
DateCheck(p, context, episode_num) ==
    /\ LET r == DateGuard_check(episode_dates[p], context, episode_num)
       IN  /\ episode_dates' = [episode_dates EXCEPT ![p] = r[1]]
           /\ dateRes' = r[2]
    /\ UNCHANGED <<rc, registryVars, immVars, schedVars, readVars>>

\* The project whose date log the specification exercises.
DateProject == "default"

DateNext == \E c \in Contexts, e \in Episodes : DateCheck(DateProject, c, e)

(***************************************************************************)
(* Claims about the date guard                                             *)
(***************************************************************************)
\* The date log of the exercised project, as check loads it.
DateLog == load_date_log(episode_dates[DateProject])

\* The one element of a singleton set.
The(S) == CHOOSE x \in S : TRUE

\* C6: a check of episode N with a parsable date d raises date_backstep iff
\* d is strictly earlier than the date logged for the largest logged episode
\* below N (no such episode: no failure); the failure reports that episode
\* and the whole-day difference and leaves the log alone; a pass records d
\* for N and changes no other entry.
C6_ClosestPrior ==
    [][(/\ dateRes' # dateRes
        /\ dateRes'.current_date # {}
        /\ parse_date(The(dateRes'.current_date)) # NotADate) =>
          LET N == dateRes'.current_episode
              dstr == The(dateRes'.current_date)
              d == parse_date(dstr)
              L == DateLog
              L2 == DateLog'
              prior == {e \in DOMAIN L : e < N}
              recorded == /\ DOMAIN L2 = DOMAIN L \cup {N}
                          /\ L2[N] = dstr
                          /\ \A e \in DOMAIN L \ {N} : L2[e] = L[e]
          IN  IF prior = {}
              THEN ~dateRes'.raised /\ recorded
              ELSE LET q == CHOOSE e \in prior : \A f \in prior : f <= e
                       pd == parse_date(L[q])
                   IN  /\ dateRes'.raised <=> d < pd
                       /\ dateRes'.raised =>
                             /\ dateRes'.days_backward = pd - d
                             /\ dateRes'.previous_episode = {q}
                             /\ dateRes'.previous_date = {L[q]}
                             /\ L2 = L
                       /\ ~dateRes'.raised => recorded]_vars

\* Episode 3 on 2024-01-03 against episode 2 on 2024-01-05 fails by two
\* days, although episode 1 is logged on 2024-02-01.
C6_Witness ==
    /\ dateRes.op = "check" /\ dateRes.raised
    /\ dateRes.current_episode = 3 /\ dateRes.previous_episode = {2}
    /\ dateRes.days_backward = 2
    /\ 1 \in DOMAIN DateLog /\ DateLog[1] = DateString("-", 2, 1)

\* C7: the recorded dates never go backwards in time: for logged episodes
\* e1 < e2 the date recorded for e1 is not later than the date recorded
\* for e2.
C7_LogMonotonic ==
    \A e1, e2 \in DOMAIN DateLog :
        e1 < e2 => parse_date(DateLog[e1]) <= parse_date(DateLog[e2])

\* C27: a check that finds no date in the context, finds a date it cannot
\* parse, or raises date_backstep leaves the date log file as it was; a
\* check that changes the file passed with a parsable date.
C27_WritesOnlyOnPass ==
    [][LET found == dateRes'.current_date
           parsable == found # {} /\ parse_date(The(found)) # NotADate
       IN  /\ (found = {} \/ ~parsable \/ dateRes'.raised) =>
                 episode_dates' = episode_dates
           /\ episode_dates' # episode_dates =>
                 ~dateRes'.raised /\ parsable]_vars

\* A check with a date in a format the guard does not accept passed and
\* the log, which holds two episodes, does not have its episode.
C27_Witness ==
    /\ dateRes.op = "check" /\ ~dateRes.raised
    /\ dateRes.current_date # {}
    /\ parse_date(The(dateRes.current_date)) = NotADate
    /\ Cardinality(DOMAIN DateLog) = 2
    /\ dateRes.current_episode \notin DOMAIN DateLog

\* C22: the set of episode numbers in the persisted date log only grows:
\* whatever a check does, every episode the log held before it is still in
\* the log after it.
C22_LogOnlyGrows ==
    [][DOMAIN DateLog \subseteq DOMAIN DateLog']_vars

\* Three episodes are logged and the last check, which raised
\* date_backstep, took none of them away.
C22_Witness ==
    /\ dateRes.op = "check" /\ dateRes.raised
    /\ Cardinality(DOMAIN DateLog) = 3

(***************************************************************************)
(* Immutable guard (src/plugins/immutable_guard.py)                        *)
(***************************************************************************)
Fields == {"birth", "blood"}

\* A field the character data does not have.
NoValue == "absent"

FieldValues == {"2002-07-15", "2003-07-15"}

\* Character data: the list under "immutable" and the fields' values.
CharData(immutable, values) == [immutable |-> immutable, values |-> values]

\* The character dictionaries the checks are given: the first character in
\* every shape, the second with `birth` declared immutable.
CharacterInputs ==
    LET first == {CharData(I, v) : I \in {{}, {"birth"}, {"birth", "blood"}},
                                   v \in [Fields -> FieldValues \cup {NoValue}]}
        second == {CharData({"birth"}, [f \in Fields |-> IF f = "birth" THEN b ELSE NoValue]) :
                        b \in FieldValues}
    IN  {<<>>}
        \cup {[c \in {"hero"} |-> x] : x \in first}
        \cup {[c \in {"rival"} |-> y] : y \in second}
        \cup {[c \in {"hero", "rival"} |-> IF c = "hero" THEN x ELSE y] :
                    x \in first, y \in second}

\* The inner loop of _extract_immutable_fields: the declared fields the
\* character data has.
char_immutable(char_data) ==
    LET present == {f \in char_data.immutable : char_data.values[f] # NoValue}
    IN  [f \in present |-> char_data.values[f]]

\* _extract_immutable_fields: characters without a declared field that is
\* present are left out.
extract_immutable_fields(characters) ==
    LET kept == {c \in DOMAIN characters :
                    DOMAIN char_immutable(characters[c]) # {}}
    IN  [c \in kept |-> char_immutable(characters[c])]

\* _load_snapshot: a missing or malformed file gives {}.
load_snapshot(file) == IF file.state = "ok" THEN file.data ELSE <<>>

\* _save_snapshot
save_snapshot(snapshot) == JsonFile(snapshot)

\* A violation as check appends it.
Violation(char_id, field, snapshot_value, current_value) ==
    [character |-> char_id, field |-> field,
     original_value |-> snapshot_value, current_value |-> current_value]

\* Every field of every character of the current data that the snapshot
\* has with another value.
differing_fields(snapshot, current_immutable) ==
    UNION {{Violation(c, f, snapshot[c][f], current_immutable[c][f]) :
                f \in {g \in DOMAIN current_immutable[c] :
                          /\ g \in DOMAIN snapshot[c]
                          /\ current_immutable[c][g] # snapshot[c][g]}} :
           c \in {x \in DOMAIN current_immutable : x \in DOMAIN snapshot}}

FirstViolationOnly(snapshot, current_immutable) ==
    LET all == differing_fields(snapshot, current_immutable)
    IN  IF all = {} THEN {} ELSE {CHOOSE v \in all : TRUE}

\* The violations the two loops of check collect, none left out.  (The list
\* has one entry per character and field; it is kept as a set.)
violations(snapshot, current_immutable) ==
    differing_fields(snapshot, current_immutable)

mergedOverwrites(snapshot, current_immutable) ==
    [c \in DOMAIN snapshot \cup DOMAIN current_immutable |->
        IF c \in DOMAIN current_immutable THEN current_immutable[c] ELSE snapshot[c]]

\* The snapshot after the two loops: new characters and new fields are
\* added, recorded values are kept.
merged(snapshot, current_immutable) ==
    [c \in DOMAIN snapshot \cup DOMAIN current_immutable |->
        IF c \notin DOMAIN snapshot THEN current_immutable[c]
        ELSE IF c \notin DOMAIN current_immutable THEN snapshot[c]
        ELSE [f \in DOMAIN snapshot[c] \cup DOMAIN current_immutable[c] |->
                IF f \in DOMAIN snapshot[c] THEN snapshot[c][f]
                ELSE current_immutable[c][f]]]

ImmResult(current_chars, raised, found, created) ==
    [op |-> "check", current_chars |-> current_chars, raised |-> raised,
     count |-> Cardinality(found), details |-> found, snapshot_created |-> created]

\* ImmutableGuard.check(current_chars) on the file: <<file afterwards, result>>.
ImmutableGuard_check(file, current_chars) ==
    LET current_immutable == extract_immutable_fields(current_chars)
        snapshot == load_snapshot(file)
    IN  IF file.state = "wrong_type"
        THEN \* the list is truthy; `snapshot[char_id] = ...` raises TypeError
             \* for the first character, and with no character the list is
             \* saved back
             IF DOMAIN current_immutable = {}
             THEN <<file, ImmResult(current_chars, FALSE, {}, FALSE)>>
             ELSE <<file, Crash("TypeError")>>
        ELSE IF DOMAIN snapshot = {}
        THEN <<save_snapshot(current_immutable),
               ImmResult(current_chars, FALSE, {}, TRUE)>>
        ELSE LET found == violations(snapshot, current_immutable)
             IN  <<save_snapshot(merged(snapshot, current_immutable)),
                   ImmResult(current_chars, found # {}, found, FALSE)>>

\* ImmutableGuard(project=p).check(current_chars)
ImmutableCheck(p, current_chars) ==
    /\ LET r == ImmutableGuard_check(immutable_snapshot[p], current_chars)
       IN  /\ immutable_snapshot' = [immutable_snapshot EXCEPT ![p] = r[1]]
           /\ immRes' = r[2]
    /\ UNCHANGED <<rc, registryVars, dateVars, schedVars, readVars>>

\* The project whose snapshot the specification exercises.
ImmutableProject == "default"

ImmutableNext == \E c \in CharacterInputs : ImmutableCheck(ImmutableProject, c)

(***************************************************************************)
(* Claims about the immutable guard                                        *)
(***************************************************************************)
\* The fields a character declares immutable and has a value for.
Declared(chars, c) == {f \in chars[c].immutable : chars[c].values[f] # NoValue}

\* C8: with no stored snapshot the check stores every character's declared
\* immutable values and passes; with a stored snapshot it raises
\* immutable_breach iff some character in both the snapshot and the current
\* data has a declared field whose value differs from the snapshot's, and
\* the failure lists every such field, with their number as count.
C8_SnapshotDiff ==
    [][(immRes' # immRes /\ immRes'.op = "check") =>
          LET chars == immRes'.current_chars
              file == immutable_snapshot[ImmutableProject]
              S == file.data
              S2 == immutable_snapshot'[ImmutableProject].data
              differing ==
                  {x \in (DOMAIN chars) \X Fields :
                      /\ x[1] \in DOMAIN S
                      /\ x[2] \in Declared(chars, x[1])
                      /\ x[2] \in DOMAIN S[x[1]]
                      /\ chars[x[1]].values[x[2]] # S[x[1]][x[2]]}
          IN  IF file.state = "missing"
              THEN /\ ~immRes'.raised
                   /\ immRes'.snapshot_created
                   /\ immutable_snapshot'[ImmutableProject].state = "ok"
                   /\ DOMAIN S2 = {c \in DOMAIN chars : Declared(chars, c) # {}}
                   /\ \A c \in DOMAIN S2 :
                         /\ DOMAIN S2[c] = Declared(chars, c)
                         /\ \A f \in DOMAIN S2[c] : S2[c][f] = chars[c].values[f]
              ELSE /\ immRes'.raised <=> differing # {}
                   /\ immRes'.raised =>
                         /\ immRes'.count = Cardinality(differing)
                         /\ {<<v.character, v.field>> : v \in immRes'.details} = differing
                         /\ Cardinality(immRes'.details) = Cardinality(differing)
                         /\ \A v \in immRes'.details :
                               /\ v.original_value = S[v.character][v.field]
                               /\ v.current_value = chars[v.character].values[v.field]]_vars

\* Two fields differ and both are reported.
C8_Witness ==
    /\ immRes.op = "check" /\ immRes.raised /\ immRes.count = 2
    /\ \E v \in immRes.details : v.character = "hero" /\ v.field = "birth"
    /\ \E v \in immRes.details : v.field = "blood"

\* The snapshot of the exercised project, as check loads it.
Snapshot == load_snapshot(immutable_snapshot[ImmutableProject])

\* C28: every (character, field) value recorded in the snapshot is still
\* there, unchanged, after any check, passing or failing (the snapshot only
\* gains characters and fields); so a check whose data declares a recorded
\* field with another value raises and reports it against the recorded
\* value, each time, for as long as the data differs.
C28_RecordedValuesStay ==
    [][(immRes' # immRes /\ immRes'.op = "check") =>
          LET S == Snapshot
              S2 == Snapshot'
              chars == immRes'.current_chars
          IN  \A c \in DOMAIN S : \A f \in DOMAIN S[c] :
                  /\ c \in DOMAIN S2 /\ f \in DOMAIN S2[c]
                  /\ S2[c][f] = S[c][f]
                  /\ (/\ c \in DOMAIN chars
                      /\ f \in Declared(chars, c)
                      /\ chars[c].values[f] # S[c][f]) =>
                        /\ immRes'.raised
                        /\ Violation(c, f, S[c][f], chars[c].values[f]) \in immRes'.details]_vars

\* A check with a changed birth date failed, and the snapshot still holds
\* the recorded date it was reported against, next to a second character.
C28_Witness ==
    /\ immRes.op = "check" /\ immRes.raised /\ immRes.count = 1
    /\ \E v \in immRes.details :
          /\ v.character = "hero" /\ v.field = "birth"
          /\ "hero" \in DOMAIN Snapshot /\ "birth" \in DOMAIN Snapshot["hero"]
          /\ Snapshot["hero"]["birth"] = v.original_value
          /\ v.current_value # v.original_value
    /\ "rival" \in DOMAIN Snapshot

(***************************************************************************)
(* Foreshadow ledger (src/plugins/foreshadow_scheduler.py) and schedule    *)
(* guard (src/plugins/schedule_guard.py)                                   *)
(***************************************************************************)
\* Largest number of records the model schedules in one ledger.
MaxRecords == 2

TOTAL_EPISODES == 250

\* random.randint(10, 30): the two ends of the range.
RandomOffsets == {10, 30}

\* Episodes foreshadows are introduced in.
IntroducedEpisodes == {5, 245}

\* Episodes payoffs are tracked in, and episodes the guard checks.
PayoffEpisodes == {12, 16}
CheckedEpisodes == {15, 16, 36, 251}

\* Ids "f" + six hex digits.
IdPool == <<"f000001", "f000002", "f000003", "f000004">>

\* Pieces of episode content: plain text, or a marker [RESOLVED:<id>].
Text == [kind |-> "text", id |-> ""]
Marker(id) == [kind |-> "marker", id |-> id]

Contents ==
    {<<Text>>, <<Marker("f000001")>>, <<Text, Marker("f000002")>>,
     <<Marker("f000001"), Text, Marker("f000002")>>, <<Marker("f999999")>>}

\* re.findall(r"\[RESOLVED:([^\]]+)\]", content): the ids of the markers.
findall(content) == {content[i].id : i \in {j \in 1..Len(content) : content[j].kind = "marker"}}

\* _load_foreshadows(project)["foreshadows"]: a missing or unreadable file
\* gives the empty list.
load_foreshadows(file) == IF file.state = "ok" THEN file.data ELSE <<>>

\* _load_foreshadows returns whatever JSON value the file holds:
\* `data["foreshadows"]` on a list raises TypeError.
ledger_error(file) == IF file.state = "wrong_type" THEN "TypeError" ELSE PyNone

\* The operation ends with the exception; the ledger stays as it is.
LedgerCrash(file) ==
    /\ schedRes' = Crash(ledger_error(file))
    /\ UNCHANGED <<rc, registryVars, dateVars, immVars, foreshadow, readVars>>

save_foreshadowsTruncated(data) == JsonFile(SubSeq(data, 1, Len(data) - 1))

\* _save_foreshadows
save_foreshadows(data) == JsonFile(data)

\* existing_ids = [f["id"] for f in data["foreshadows"]]
existing_ids(data) == {data[i].id : i \in 1..Len(data)}

\* _generate_unique_id: a uuid-based id that is not in existing_ids (ids are
\* interchangeable: the first unused one of the pool stands for it), or,
\* after 100 colliding draws, the timestamp id, which is not checked against
\* existing_ids.
generate_unique_id(existing) ==
    {IdPool[CHOOSE i \in 1..Len(IdPool) :
                /\ IdPool[i] \notin existing
                /\ \A j \in 1..(i - 1) : IdPool[j] \in existing]}
    \cup existing

\* _calculate_due_episode with the offset random.randint drew.
calculate_due_episode(introduced_ep, random_offset) ==
    LET due_episode == introduced_ep + random_offset
    IN  IF due_episode <= TOTAL_EPISODES THEN due_episode ELSE TOTAL_EPISODES

\* An optional episode is a set with at most one element: payoff = None is {}.
Foreshadow(id, hint, introduced, due, payoff) ==
    [id |-> id, hint |-> hint, introduced |-> introduced, due |-> due, payoff |-> payoff]

\* schedule_foreshadow(hint, introduced_ep, project)
schedule_foreshadow(p, hint, introduced_ep, random_offset, new_id) ==
    LET data == load_foreshadows(foreshadow[p])
        made == Foreshadow(new_id, hint, introduced_ep,
                           calculate_due_episode(introduced_ep, random_offset), {})
    IN  IF ledger_error(foreshadow[p]) # PyNone THEN LedgerCrash(foreshadow[p])
        ELSE
        /\ Len(data) < MaxRecords
        /\ new_id \in generate_unique_id(existing_ids(data))
        /\ foreshadow' = [foreshadow EXCEPT ![p] = save_foreshadows(Append(data, made))]
        /\ schedRes' = [op |-> "schedule_foreshadow", returned |-> made]
        /\ UNCHANGED <<rc, registryVars, dateVars, immVars, readVars>>

ResolvesAnyMatch(f, matches) == f.id \in matches

\* `if foreshadow["id"] in matches and foreshadow["payoff"] is None`
Resolves(f, matches) == f.id \in matches /\ f.payoff = {}

MatchedAny(matches, resolved) == matches # {}

\* resolved_any: some record was marked in the loop, which runs only when
\* the content holds a marker.
ResolvedAny(matches, resolved) == matches # {} /\ resolved # {}

\* track_payoff(episode, content, project)
track_payoff(p, episode, content) ==
    LET data == load_foreshadows(foreshadow[p])
        matches == findall(content)
        resolved == {i \in 1..Len(data) : Resolves(data[i], matches)}
        marked == [i \in 1..Len(data) |->
                      IF Resolves(data[i], matches)
                      THEN [data[i] EXCEPT !.payoff = {episode}] ELSE data[i]]
        resolved_any == ResolvedAny(matches, resolved)
    IN  IF matches # {} /\ ledger_error(foreshadow[p]) # PyNone THEN LedgerCrash(foreshadow[p])
        ELSE
        /\ foreshadow' = IF resolved_any
                         THEN [foreshadow EXCEPT ![p] = save_foreshadows(marked)]
                         ELSE foreshadow
        /\ schedRes' = [op |-> "track_payoff", episode |-> episode,
                        matches |-> matches, returned |-> resolved_any]
        /\ UNCHANGED <<rc, registryVars, dateVars, immVars, readVars>>

\* get_unresolved_foreshadows(project)
get_unresolved_foreshadows(file) ==
    SelectSeq(load_foreshadows(file), LAMBDA f : f.payoff = {})

OverdueOrDue(current_episode, f) == current_episode >= f.due

\* `current_episode > f["due"]`
Overdue(current_episode, f) == current_episode > f.due

\* get_overdue_foreshadows(current_episode, project)
get_overdue_foreshadows(file, current_episode) ==
    SelectSeq(get_unresolved_foreshadows(file), LAMBDA f : Overdue(current_episode, f))

\* The project whose ledger ScheduleGuard reads and writes: check and
\* update_payoff call the ledger functions without a project, whatever
\* project the guard was created for.
ScheduleGuardProject(p) == "default"

\* ScheduleGuard(project=p).check(current_episode)
ScheduleGuard_check(p, current_episode) ==
    LET overdue == get_overdue_foreshadows(foreshadow[ScheduleGuardProject(p)],
                                           current_episode)
        overdue_details ==
            [i \in 1..Len(overdue) |->
                [id |-> overdue[i].id, hint |-> overdue[i].hint,
                 introduced |-> overdue[i].introduced, due |-> overdue[i].due,
                 episodes_overdue |-> current_episode - overdue[i].due]]
    IN  IF ledger_error(foreshadow[ScheduleGuardProject(p)]) # PyNone
        THEN LedgerCrash(foreshadow[ScheduleGuardProject(p)])
        ELSE
        /\ schedRes' = [op |-> "check", project |-> p, current_episode |-> current_episode,
                        raised |-> overdue # <<>>, count |-> Len(overdue),
                        details |-> overdue_details]
        /\ UNCHANGED <<rc, registryVars, dateVars, immVars, foreshadow, readVars>>

\* ScheduleGuard(project=p).update_payoff(foreshadow_id, episode): the first
\* record with the id decides.
ScheduleGuard_update_payoff(p, foreshadow_id, episode) ==
    LET q == ScheduleGuardProject(p)
        data == load_foreshadows(foreshadow[q])
        found == {i \in 1..Len(data) : data[i].id = foreshadow_id}
        first == CHOOSE i \in found : \A j \in found : i <= j
        updates == found # {} /\ data[first].payoff = {}
    IN  IF ledger_error(foreshadow[q]) # PyNone THEN LedgerCrash(foreshadow[q])
        ELSE
        /\ foreshadow' = IF updates
                         THEN [foreshadow EXCEPT
                                 ![q] = save_foreshadows([data EXCEPT ![first].payoff = {episode}])]
                         ELSE foreshadow
        /\ schedRes' = [op |-> "update_payoff", project |-> p,
                        foreshadow_id |-> foreshadow_id,
                        episode |-> episode, returned |-> updates]
        /\ UNCHANGED <<rc, registryVars, dateVars, immVars, readVars>>

\* The project whose ledger the specification exercises.
ScheduleProject == "default"

ScheduleNext ==
    \/ \E i \in IntroducedEpisodes, r \in RandomOffsets,
          n \in {IdPool[k] : k \in 1..Len(IdPool)} :
            schedule_foreshadow(ScheduleProject, "hint", i, r, n)
    \/ \E e \in PayoffEpisodes, c \in Contents : track_payoff(ScheduleProject, e, c)
    \/ \E e \in CheckedEpisodes : ScheduleGuard_check(ScheduleProject, e)
    \/ \E f \in {"f000001", "f000002", "f999999"}, e \in PayoffEpisodes :
            ScheduleGuard_update_payoff(ScheduleProject, f, e)

(***************************************************************************)
(* Claims about the foreshadow ledger and the schedule guard               *)
(***************************************************************************)
\* The ledger of project p as the operations load it.
Ledger(p) == load_foreshadows(foreshadow[p])

\* C9: no operation removes or reorders records, and a payoff that is set
\* (non-null) is never changed or reset; a null payoff stays null or
\* becomes one episode number.
C9_PayoffOnce ==
    [][\A p \in Projects :
          LET L == Ledger(p)
              L2 == Ledger(p)'
          IN  /\ Len(L2) >= Len(L)
              /\ \A i \in 1..Len(L) :
                    /\ L2[i].id = L[i].id
                    /\ L[i].payoff # {} => L2[i].payoff = L[i].payoff
                    /\ L[i].payoff = {} =>
                          \/ L2[i].payoff = {}
                          \/ \E e \in PayoffEpisodes : L2[i].payoff = {e}]_vars

\* update_payoff with episode 16 on a record resolved in episode 12 returned
\* False and the record still says 12.
C9_Witness ==
    /\ schedRes.op = "update_payoff" /\ ~schedRes.returned /\ schedRes.episode = 16
    /\ \E i \in 1..Len(Ledger(ScheduleProject)) :
          /\ Ledger(ScheduleProject)[i].id = schedRes.foreshadow_id
          /\ Ledger(ScheduleProject)[i].payoff = {12}

\* C23: the ids of the records of a ledger are pairwise distinct.
C23_IdsDistinct ==
    \A p \in Projects :
        \A i, j \in 1..Len(Ledger(p)) :
            i # j => Ledger(p)[i].id # Ledger(p)[j].id

\* A step of track_payoff (every operation on the ledger records itself).
TrackPayoffActed == schedRes'.op = "track_payoff"

\* C21: track_payoff(episode, content) sets payoff = episode for exactly the
\* records that are unresolved and whose id is in a marker of the content,
\* leaves every other record and the length of the ledger as they are, and
\* returns true iff it resolved at least one record; when every record a
\* marker names is already resolved it returns false and the ledger file
\* is unchanged, whatever the episode number.
C21_TrackPayoffResolvesOnce ==
    [][TrackPayoffActed =>
          LET L == Ledger(ScheduleProject)
              L2 == Ledger(ScheduleProject)'
              m == schedRes'.matches
              newly == {i \in 1..Len(L) : L[i].id \in m /\ L[i].payoff = {}}
          IN  /\ Len(L2) = Len(L)
              /\ \A i \in 1..Len(L) :
                    L2[i] = IF i \in newly
                            THEN [L[i] EXCEPT !.payoff = {schedRes'.episode}]
                            ELSE L[i]
              /\ schedRes'.returned <=> newly # {}
              /\ (\A i \in 1..Len(L) : L[i].id \in m => L[i].payoff # {}) =>
                    ~schedRes'.returned /\ foreshadow' = foreshadow]_vars

\* track_payoff in episode 16 on a marker whose record was resolved in
\* episode 12 returned False, and the record still says 12.
C21_Witness ==
    /\ schedRes.op = "track_payoff" /\ ~schedRes.returned /\ schedRes.episode = 16
    /\ \E i \in 1..Len(Ledger(ScheduleProject)) :
          /\ Ledger(ScheduleProject)[i].id \in schedRes.matches
          /\ Ledger(ScheduleProject)[i].payoff = {12}

MaxRelEpisode == 4

\* Largest number of records the model writes to one relation matrix.
MaxRelRecords == 2

RelEpisodes == 1..MaxRelEpisode

\* tolerance_ep values a guard is created with (3 is the default).
Tolerances == {2, 3}

\* Relation labels, written in English for the Korean labels of the code:
\* the opposing pair of _is_opposing_relation and a third, neutral label.
Friend == "friend"
Enemy == "enemy"
Colleague == "colleague"
RelationLabels == {Friend, Enemy, Colleague}

\* Character names in their sorted order; a pair "X,Y" is the tuple <<X, Y>>.
CharNames == <<"A", "B">>

CharPairs == {<<"A", "B">>, <<"B", "A">>}

\* A `relations` dict: entries in insertion order, keys distinct.
RelationDicts == {<<>>} \cup {<<[pair |-> k, label |-> l]>> : k \in CharPairs, l \in RelationLabels}

\* One record of the matrix.
RelationRecords == [ep : RelEpisodes, relations : RelationDicts]

\* _load_relations: a missing file is an empty list.
load_relations(file) == IF file.state = "ok" THEN file.data ELSE <<>>

\* A record is added to the matrix file (the guard itself never writes it).
AppendRelations(p, record) ==
    /\ Len(load_relations(relation_matrix[p])) < MaxRelRecords
    /\ relation_matrix' = [relation_matrix EXCEPT
                             ![p] = JsonFile(Append(load_relations(relation_matrix[p]), record))]
    /\ UNCHANGED <<rc, registryVars, dateVars, immVars, schedVars, relRes, anchorVars, ruleVars, extraVars>>

\* `key in relations`
HasKey(relations, key) == \E i \in 1..Len(relations) : relations[i].pair = key

\* `relations[key]`
GetItem(relations, key) == relations[CHOOSE i \in 1..Len(relations) : relations[i].pair = key].label

\* Position of a name in the sorted order of names.
NameRank(c) == CHOOSE i \in 1..Len(CharNames) : CharNames[i] = c

\* ",".join(sorted(char_pair.split(",")))
normalized_pair(char_pair) ==
    IF NameRank(char_pair[1]) <= NameRank(char_pair[2]) THEN char_pair
    ELSE <<char_pair[2], char_pair[1]>>

\* ",".join(reversed(chars))
reverse_pair(char_pair) ==
    LET n == normalized_pair(char_pair) IN <<n[2], n[1]>>

\* found_relation for one earlier record: the pair as spelled, then sorted,
\* then reversed; None when the record has none of them.
found_relation(relations, char_pair) ==
    IF HasKey(relations, char_pair) THEN GetItem(relations, char_pair)
    ELSE IF HasKey(relations, normalized_pair(char_pair))
         THEN GetItem(relations, normalized_pair(char_pair))
    ELSE IF HasKey(relations, reverse_pair(char_pair))
         THEN GetItem(relations, reverse_pair(char_pair))
    ELSE PyNone

\* _is_opposing_relation
is_opposing_relation(rel1, rel2) == <<rel1, rel2>> \in {<<Friend, Enemy>>, <<Enemy, Friend>>}

\* The loop over self.relations for one pair: the record with the largest
\* ep below episode_num that has a label for the pair, the first such record
\* of the list when several share that ep.  {} when there is none.
most_recent(relations, char_pair, episode_num) ==
    LET hits == {i \in 1..Len(relations) :
                   /\ relations[i].ep < episode_num
                   /\ ~Falsy(found_relation(relations[i].relations, char_pair))}
        best == {i \in hits : \A j \in hits :
                   \/ relations[j].ep < relations[i].ep
                   \/ (relations[j].ep = relations[i].ep /\ i <= j)}
    IN  {[ep |-> relations[i].ep,
          relation |-> found_relation(relations[i].relations, char_pair)] : i \in best}

\* Mutant: the test suite's reading, a flip inside the tolerance window.
InsideTolerance(episode_gap, tolerance_ep) == episode_gap < tolerance_ep

\* `episode_gap > self.tolerance_ep`
BeyondTolerance(episode_gap, tolerance_ep) == episode_gap > tolerance_ep

\* The violation check raises for entry k of current_relations, as a set:
\* {} when that entry does not violate.
relation_violation(relations, entry, episode_num, tolerance_ep) ==
    {[char_pair |-> entry.pair,
      previous_episode |-> m.ep,
      previous_relation |-> m.relation,
      current_episode |-> episode_num,
      current_relation |-> entry.label,
      episode_gap |-> episode_num - m.ep,
      tolerance_ep |-> tolerance_ep] :
        m \in {x \in most_recent(relations, entry.pair, episode_num) :
                 /\ x.ep > 0
                 /\ BeyondTolerance(episode_num - x.ep, tolerance_ep)
                 /\ is_opposing_relation(x.relation, entry.label)}}

\* current_relations: the relations of the first record whose ep is episode_num.
current_relations(relations, episode_num) ==
    LET at == {i \in 1..Len(relations) : relations[i].ep = episode_num}
    IN  IF at = {} THEN <<>>
        ELSE relations[CHOOSE i \in at : \A j \in at : i <= j].relations

\* RelationGuard(project=p, tolerance_ep).check(episode_num): the result.
RelationGuard_check(file, episode_num, tolerance_ep) ==
    LET relations == load_relations(file)
        current == current_relations(relations, episode_num)
        bad == {k \in 1..Len(current) :
                  relation_violation(relations, current[k], episode_num, tolerance_ep) # {}}
        first == {k \in bad : \A j \in bad : k <= j}
    IN  [op |-> "check", episode |-> episode_num, tolerance_ep |-> tolerance_ep,
         raised |-> bad # {},
         guard_name |-> IF bad # {} THEN "relation_guard" ELSE PyNone,
         violation |-> UNION {relation_violation(relations, current[k], episode_num,
                                                 tolerance_ep) : k \in first}]

RelationCheck(p, episode_num, tolerance_ep) ==
    /\ relRes' = RelationGuard_check(relation_matrix[p], episode_num, tolerance_ep)
    /\ UNCHANGED <<rc, registryVars, dateVars, immVars, schedVars, relation_matrix,
                   anchorVars, ruleVars, extraVars>>

\* The project whose relation matrix the specification exercises.
RelationProject == "default"

RelationNext ==
    \/ \E r \in RelationRecords : AppendRelations(RelationProject, r)
    \/ \E e \in RelEpisodes, t \in Tolerances : RelationCheck(RelationProject, e, t)

(***************************************************************************)
(* Claims about the relation guard                                         *)
(***************************************************************************)
\* The relation matrix of the exercised project, as the guard loads it.
RelationLog == load_relations(relation_matrix[RelationProject])

\* "A,B" and "B,A" name the same relationship.
SamePair(a, b) == {a[1], a[2]} = {b[1], b[2]}

\* The records of an episode below N that hold a label for the pair.
PriorRecords(pair, N) ==
    {i \in 1..Len(RelationLog) :
        /\ RelationLog[i].ep < N
        /\ \E k \in 1..Len(RelationLog[i].relations) :
              SamePair(RelationLog[i].relations[k].pair, pair)}

\* The labels the records of episode ep hold for the pair.
LabelsAt(pair, ep) ==
    {RelationLog[i].relations[k].label :
        <<i, k>> \in {x \in (1..Len(RelationLog)) \X (1..1) :
                        /\ RelationLog[x[1]].ep = ep
                        /\ x[2] <= Len(RelationLog[x[1]].relations)
                        /\ SamePair(RelationLog[x[1]].relations[x[2]].pair, pair)}}

\* Friend and enemy are the opposing labels.
Opposing(a, b) == {a, b} = {Friend, Enemy}

\* A check has just returned or raised.
RelationChecked == relRes' # relRes /\ relRes'.op = "check"

Flips(N) ==
    {[pair |-> p, gap |-> N - Max({RelationLog[i].ep : i \in PriorRecords(p, N)})] :
        p \in {q \in CharPairs :
                 /\ PriorRecords(q, N) # {}
                 /\ \E a \in LabelsAt(q, Max({RelationLog[i].ep : i \in PriorRecords(q, N)})),
                       b \in LabelsAt(q, N) : Opposing(a, b)}}

\* C12: an opposing flip whose gap is smaller than the tolerance makes check
\* raise, and when every flip has a gap of at least the tolerance check
\* passes (log ep 1 friend, ep 3 enemy: raises under tolerance 3, passes
\* under tolerance 2).
C12_FlipInsideToleranceRaises ==
    [][RelationChecked =>
          LET flips == Flips(relRes'.episode)
          IN  /\ (\E f \in flips : f.gap < relRes'.tolerance_ep) => relRes'.raised
              /\ (\A f \in flips : f.gap >= relRes'.tolerance_ep) => ~relRes'.raised]_vars

(***************************************************************************)
(* Anchor guard (src/plugins/anchor_guard.py)                              *)
(***************************************************************************)
\* Largest number of anchors the model writes to one anchors file.
MaxAnchors == 2

\* A string is the sequence of its characters; a Korean syllable is one
\* character, written here in Latin letters ("ju" "in" "gong" is the
\* three-character word for protagonist).
Space == " "

\* The particles the suffix regex strips, one character each, and the one
\* two-character particle.
Particles == {"i", "ga", "reul", "eul", "ui", "e", "wa", "gwa", "ro", "neun", "eun", "da"}

LongParticle == <<"eu", "ro">>

\* stop_words
stop_words ==
    {<<"i">>, <<"ga">>, <<"reul">>, <<"eul">>, <<"ui">>, <<"e">>, <<"wa">>, <<"gwa">>,
     <<"ro">>, <<"eu", "ro">>, <<"neun">>, <<"eun">>, <<"han", "da">>, <<"da">>,
     <<"go">>, <<"do">>}

\* Goals: "protagonist-particle appearance", the one-character word "first",
\* an English word with a capital, and a missing goal.
GoalAppears == <<"ju", "in", "gong", "i", Space, "deung", "jang">>
GoalFirst == <<"cheot">>
GoalHero == <<"H", "e", "r", "o">>
NoGoal == <<>>
Goals == {GoalAppears, GoalFirst, GoalHero, NoGoal}

\* Episode texts: the protagonist appears; background only; the word
\* "first" and the English word in lower case; an empty text.
EpisodeTexts ==
    {<<"ju", "in", "gong", "i", Space, "deung", "jang", "han", "da">>,
     <<"bae", "gyeong">>,
     <<"cheot", Space, "h", "e", "r", "o">>,
     <<>>}

\* anchor_ep of an anchor: a set, empty when the field is missing.
AnchorEpisodes == {{}, {5}, {6}}

\* Episode numbers check is called with.
AnchorCheckEpisodes == 3..7

\* _load_anchors on a file that is missing or holds a list.
load_anchors(file) == IF file.state = "ok" THEN file.data ELSE <<>>

\* _load_anchors catches FileNotFoundError only: json.load raises
\* JSONDecodeError on text that is not JSON, and a value that is not a list
\* raises ValueError.
load_anchors_error(file) ==
    CASE file.state = "invalid_json" -> "JSONDecodeError"
      [] file.state = "wrong_type" -> "ValueError"
      [] OTHER -> PyNone

\* An anchor is added to the anchors file (the guard itself never writes
\* it); its id is its position in the list.
AppendAnchor(p, goal, anchor_ep) ==
    /\ Len(load_anchors(anchors[p])) < MaxAnchors
    /\ anchors' = [anchors EXCEPT ![p] = JsonFile(Append(load_anchors(anchors[p]),
                       [id |-> Len(load_anchors(anchors[p])) + 1, goal |-> goal,
                        anchor_ep |-> anchor_ep]))]
    /\ UNCHANGED <<rc, registryVars, dateVars, immVars, schedVars, relVars, anchorRes, ruleVars, extraVars>>

\* Mutant: only the anchor's own episode is in range.
OnlyOwnEpisode(episode_num, anchor_ep) == episode_num = anchor_ep

\* _is_episode_in_range: abs(episode_num - anchor_ep) <= 1
is_episode_in_range(episode_num, anchor_ep) ==
    (IF episode_num >= anchor_ep THEN episode_num - anchor_ep
     ELSE anchor_ep - episode_num) <= 1

\* re.findall(r"\b\w+\b", goal): the maximal runs of word characters.
RECURSIVE findall_words(_, _, _)
findall_words(s, word, found) ==
    IF s = <<>> THEN (IF word = <<>> THEN found ELSE Append(found, word))
    ELSE IF Head(s) = Space
         THEN findall_words(Tail(s), <<>>, IF word = <<>> THEN found ELSE Append(found, word))
    ELSE findall_words(Tail(s), Append(word, Head(s)), found)

\* re.sub(r"(...)$", "", word): one trailing particle is removed.
strip_particle(word) ==
    IF Len(word) >= 2 /\ SubSeq(word, Len(word) - 1, Len(word)) = LongParticle
        THEN SubSeq(word, 1, Len(word) - 2)
    ELSE IF Len(word) >= 1 /\ word[Len(word)] \in Particles
        THEN SubSeq(word, 1, Len(word) - 1)
    ELSE word

\* A cleaned word is kept as a keyword.
KeptWord(cleaned_word) == Len(cleaned_word) >= 2 /\ cleaned_word \notin stop_words

\* _extract_keywords_from_goal
extract_keywords_from_goal(goal) ==
    LET words == findall_words(goal, <<>>, <<>>)
        cleaned == [i \in 1..Len(words) |-> strip_particle(words[i])]
        cleaned_words == SelectSeq(cleaned, KeptWord)
    IN  IF cleaned_words = <<>> THEN <<goal>> ELSE cleaned_words

\* str.lower()
lower(s) == [i \in 1..Len(s) |-> IF s[i] = "H" THEN "h" ELSE s[i]]

\* `keyword in content` on strings
IsSubstring(keyword, content) ==
    \E i \in 0..(Len(content) - Len(keyword)) : SubSeq(content, i + 1, i + Len(keyword)) = keyword

\* _search_keywords_in_content
search_keywords_in_content(content, keywords) ==
    /\ content # <<>>
    /\ \E k \in 1..Len(keywords) : IsSubstring(lower(keywords[k]), lower(content))

\* keywords and found of the loop body, for every goal and episode text.
keywords_of == [goal \in Goals |-> extract_keywords_from_goal(goal)]

found_in == [goal \in Goals, episode_content \in EpisodeTexts |->
                search_keywords_in_content(episode_content, keywords_of[goal])]

\* The anchors of the loop that are not skipped and are in range of
\* episode_num, as their positions in self.anchors.
anchors_in_range(loaded, episode_num) ==
    {i \in 1..Len(loaded) :
        /\ loaded[i].anchor_ep # {}
        /\ loaded[i].goal # <<>>
        /\ \E anchor_ep \in loaded[i].anchor_ep : is_episode_in_range(episode_num, anchor_ep)}

\* anchor_check of one anchor
anchor_check(anchor, episode_content) ==
    [id |-> anchor.id, goal |-> anchor.goal, anchor_ep |-> anchor.anchor_ep,
     keywords |-> keywords_of[anchor.goal],
     found |-> found_in[anchor.goal, episode_content]]

\* The anchor_check records of the positions in S, in list order.
RECURSIVE checks_in_order(_, _, _, _)
checks_in_order(loaded, S, i, episode_content) ==
    IF i > Len(loaded) THEN <<>>
    ELSE (IF i \in S THEN <<anchor_check(loaded[i], episode_content)>> ELSE <<>>)
         \o checks_in_order(loaded, S, i + 1, episode_content)

\* A checked anchor whose keywords were not found.
NotFound(check) == ~check.found

\* AnchorGuard(project=p).check(episode_content, episode_num): the result
\* dictionary and, when it raises, the flags of the exception.
AnchorGuard_check(file, episode_content, episode_num) ==
    LET loaded == load_anchors(file)
        anchors_checked == checks_in_order(loaded, anchors_in_range(loaded, episode_num), 1,
                                           episode_content)
        missing_anchors == SelectSeq(anchors_checked, NotFound)
    IN  [op |-> "check", episode_num |-> episode_num, episode_content |-> episode_content,
         passed |-> missing_anchors = <<>>,
         raised |-> missing_anchors # <<>>,
         guard_name |-> IF missing_anchors # <<>> THEN "anchor_guard" ELSE PyNone,
         anchors_checked |-> anchors_checked,
         missing_anchors |-> missing_anchors,
         total_checked |-> Len(anchors_checked)]

\* AnchorGuard(project=p) loads the file; check runs on what it loaded.
AnchorCheck(p, episode_content, episode_num) ==
    /\ anchorRes' = IF load_anchors_error(anchors[p]) # PyNone
                    THEN Crash(load_anchors_error(anchors[p]))
                    ELSE AnchorGuard_check(anchors[p], episode_content, episode_num)
    /\ UNCHANGED <<rc, registryVars, dateVars, immVars, schedVars, relVars, anchors, ruleVars, extraVars>>

\* The project whose anchors file the specification exercises.
AnchorProject == "default"

AnchorNext ==
    \/ \E g \in Goals, e \in AnchorEpisodes : AppendAnchor(AnchorProject, g, e)
    \/ \E t \in EpisodeTexts, e \in AnchorCheckEpisodes : AnchorCheck(AnchorProject, t, e)

(***************************************************************************)
(* Claims about the anchor guard                                           *)
(***************************************************************************)
\* The anchors of the exercised project: the entries of the file that have
\* a goal and a target episode.
Anchors ==
    LET loaded == load_anchors(anchors[AnchorProject])
    IN  {a \in {loaded[i] : i \in 1..Len(loaded)} : a.goal # <<>> /\ a.anchor_ep # {}}

\* The anchors whose target episode is within 1 of N, by id.
InWindow(N) == {a.id : a \in {b \in Anchors : \E t \in b.anchor_ep : t - N \in {-1, 0, 1}}}

\* The text holds one of the goal's keywords, whatever the case of letters.
Evidenced ==
    [goal \in Goals, text \in EpisodeTexts |->
        \E k \in 1..Len(keywords_of[goal]), i \in 1..Len(text) :
            /\ i + Len(keywords_of[goal][k]) - 1 <= Len(text)
            /\ \A j \in 1..Len(keywords_of[goal][k]) :
                  lower(<<text[i + j - 1]>>) = lower(<<keywords_of[goal][k][j]>>)]

\* The ids a list of anchor_check records names.
IdsOf(checks) == {checks[i].id : i \in 1..Len(checks)}

\* A check has just returned or raised.
AnchorChecked == anchorRes' # anchorRes /\ anchorRes'.op = "check"

\* C13: check(text, N) examines exactly the anchors whose target episode is
\* within 1 of N, raises iff one of them has none of its keywords in the
\* text, reports every such anchor and the number examined, and passes
\* with nothing examined when no anchor is in the window.
C13_AnchorWindow ==
    [][AnchorChecked =>
          LET N == anchorRes'.episode_num
              text == anchorRes'.episode_content
              window == InWindow(N)
              missing == {a.id : a \in {b \in Anchors : b.id \in window /\ ~Evidenced[b.goal, text]}}
          IN  /\ IdsOf(anchorRes'.anchors_checked) = window
              /\ Len(anchorRes'.anchors_checked) = Cardinality(window)
              /\ anchorRes'.raised <=> missing # {}
              /\ IdsOf(anchorRes'.missing_anchors) = missing
              /\ Len(anchorRes'.missing_anchors) = Cardinality(missing)
              /\ anchorRes'.total_checked = Cardinality(window)
              /\ anchorRes'.raised => anchorRes'.guard_name = "anchor_guard"
              /\ window = {} => anchorRes'.passed /\ anchorRes'.anchors_checked = <<>>]_vars

\* A check one episode off an anchor's target raised for it while another
\* anchor of the file lay outside the window and a third check examined two
\* anchors and missed one.
C13_Witness ==
    /\ anchorRes.op = "check" /\ anchorRes.raised
    /\ anchorRes.total_checked = 2 /\ Len(anchorRes.missing_anchors) = 1
    /\ \E i \in 1..2 : anchorRes.anchors_checked[i].anchor_ep # {anchorRes.episode_num}

(***************************************************************************)
(* Rule guard (src/plugins/rule_guard.py)                                  *)
(***************************************************************************)
\* Largest number of entries the model writes to one rules file.
MaxRules == 2

\* Patterns: a literal word (a regex without metacharacters), a pattern
\* re cannot compile, and an entry of the file without a "pattern" key.
Literal(word) == [kind |-> "literal", word |-> word]
InvalidRegex == [kind |-> "invalid", word |-> <<>>]
NoPattern == [kind |-> "missing", word |-> <<>>]
Patterns == {Literal(<<"h", "e", "r", "o">>), Literal(<<"B", "A", "D">>), InvalidRegex, NoPattern}

Messages == {"no heroes", "no bad words"}

\* Texts check is called with; the last two are blank.
RuleTexts ==
    {<<"H", "e", "r", "o", Space, "b", "a", "d">>,
     <<"b", "a", "d">>,
     <<"o", "k">>,
     <<Space>>,
     <<>>}

\* An entry is added to the rules file (the guard itself never writes it);
\* its id is its position in the list.
AppendRule(p, pattern, message) ==
    LET data == IF rules[p].state = "ok" THEN rules[p].data ELSE <<>>
    IN  /\ Len(data) < MaxRules
        /\ rules' = [rules EXCEPT ![p] = JsonFile(Append(data,
                        [id |-> Len(data) + 1, pattern |-> pattern, message |-> message]))]
        /\ UNCHANGED <<rc, registryVars, dateVars, immVars, schedVars, relVars, anchorVars, ruleRes, extraVars>>

\* An entry with the required fields "id", "pattern" and "message".
ValidRule(rule) == rule.pattern.kind # "missing"

\* _load_rules: no rules when the file does not exist, else the entries
\* that have the required fields.
load_rules(file) == IF file.state = "ok" THEN SelectSeq(file.data, ValidRule) ELSE <<>>

\* str.lower() with the capitals of the rule texts.
lower_text(s) ==
    [i \in 1..Len(s) |-> CASE s[i] = "H" -> "h" [] s[i] = "B" -> "b" [] s[i] = "A" -> "a"
                           [] s[i] = "D" -> "d" [] OTHER -> s[i]]

\* text.strip(): blank exactly when every character is white space.
strip_is_empty(text) == \A i \in 1..Len(text) : text[i] = Space

\* re.search(pattern, text, re.IGNORECASE): "error" for a pattern that does
\* not compile, else whether the literal occurs in the text in any case.
re_search(pattern, text) ==
    IF pattern.kind = "invalid" THEN "error"
    ELSE IF IsSubstring(lower_text(pattern.word), lower_text(text)) THEN "match"
    ELSE "none"

\* Mutant: the last matching rule is the one reported.
LastMatching(matching) == {k \in matching : \A j \in matching : j <= k}

\* The loop raises at the first rule of the list that matches.
first_violation(matching) == {k \in matching : \A j \in matching : k <= j}

\* RuleGuard(project=p).check(text): what it returns or raises, with the
\* ids of the rules re.search was called for.
RuleGuard_check(file, text) ==
    LET loaded == load_rules(file)
        matching == IF strip_is_empty(text) THEN {}
                    ELSE {k \in 1..Len(loaded) : re_search(loaded[k].pattern, text) = "match"}
        hit == first_violation(matching)
        stop == IF strip_is_empty(text) THEN 0
                ELSE IF hit = {} THEN Len(loaded)
                ELSE CHOOSE k \in hit : TRUE
    IN  [op |-> "check", text |-> text,
         rules_checked |-> Len(loaded),
         evaluated |-> [k \in 1..stop |-> loaded[k].id],
         raised |-> hit # {},
         guard_name |-> IF hit # {} THEN "rule_guard" ELSE PyNone,
         rule_id |-> {loaded[k].id : k \in hit},
         message |-> {loaded[k].message : k \in hit}]

RuleCheck(p, text) ==
    /\ ruleRes' = RuleGuard_check(rules[p], text)
    /\ UNCHANGED <<rc, registryVars, dateVars, immVars, schedVars, relVars, anchorVars, rules, extraVars>>

\* The project whose rules file the specification exercises.
RuleProject == "default"

RuleNext ==
    \/ \E pt \in Patterns, m \in Messages : AppendRule(RuleProject, pt, m)
    \/ \E t \in RuleTexts : RuleCheck(RuleProject, t)

(***************************************************************************)
(* Claims about the rule guard                                             *)
(***************************************************************************)
\* The entries of the exercised project's rules file, in declared order.
DeclaredRules == IF rules[RuleProject].state = "ok" THEN rules[RuleProject].data ELSE <<>>

\* The word of a literal pattern occurs in the text, whatever the case.
Matches(rule, text) ==
    /\ rule.pattern.kind = "literal"
    /\ \E i \in 1..Len(text) :
          /\ i + Len(rule.pattern.word) - 1 <= Len(text)
          /\ \A j \in 1..Len(rule.pattern.word) :
                lower_text(<<text[i + j - 1]>>) = lower_text(<<rule.pattern.word[j]>>)

\* A check has just returned or raised.
RuleChecked == ruleRes' # ruleRes /\ ruleRes'.op = "check"

ProjectsNext ==
    \/ \E p \in Projects, n \in {IdPool[k] : k \in 1..Len(IdPool)} :
            schedule_foreshadow(p, "hint", 5, 10, n)
    \/ \E p \in Projects, e \in CheckedEpisodes : ScheduleGuard_check(p, e)
    \/ \E p \in Projects, e \in PayoffEpisodes : ScheduleGuard_update_payoff(p, "f000001", e)

\* A schedule guard has just checked or resolved.
ScheduleGuardActed == schedRes' # schedRes /\ schedRes'.op \in {"check", "update_payoff"}

\* C15: a guard created for project P reads and writes P's store only: its
\* update leaves every other project's ledger as it was and touches P's
\* ledger alone, and its check raises exactly when P's own ledger holds an
\* unresolved record that is past due.
C15_ProjectIsolation ==
    [][ScheduleGuardActed =>
          LET P == schedRes'.project
          IN  /\ \A q \in Projects \ {P} : foreshadow'[q] = foreshadow[q]
              /\ schedRes'.op = "update_payoff" =>
                    (schedRes'.returned <=>
                        \E i \in 1..Len(Ledger(P)) :
                            /\ Ledger(P)[i].id = schedRes'.foreshadow_id
                            /\ Ledger(P)[i].payoff = {}
                            /\ \A j \in 1..(i - 1) : Ledger(P)[j].id # schedRes'.foreshadow_id)
              /\ schedRes'.op = "check" =>
                    (schedRes'.raised <=>
                        \E i \in 1..Len(Ledger(P)) :
                            /\ Ledger(P)[i].payoff = {}
                            /\ schedRes'.current_episode > Ledger(P)[i].due)]_vars

(***************************************************************************)
(* The guards on absent and malformed store files                          *)
(***************************************************************************)
StoreNames ==
    {"episode_dates", "immutable_snapshot", "relation_matrix", "foreshadow", "anchors", "rules"}

\* No guard has run yet.
NoGuardHasRun ==
    \A res \in {dateRes, immRes, relRes, schedRes, anchorRes, ruleRes} : res.op = "none"

\* Before the first guard runs, a store file of project p is found to hold
\* `file` instead of being absent.
FoundMalformed(store, p, file) ==
    /\ NoGuardHasRun
    /\ episode_dates' = IF store = "episode_dates"
                        THEN [episode_dates EXCEPT ![p] = file] ELSE episode_dates
    /\ immutable_snapshot' = IF store = "immutable_snapshot"
                             THEN [immutable_snapshot EXCEPT ![p] = file] ELSE immutable_snapshot
    /\ relation_matrix' = IF store = "relation_matrix"
                          THEN [relation_matrix EXCEPT ![p] = file] ELSE relation_matrix
    /\ foreshadow' = IF store = "foreshadow"
                     THEN [foreshadow EXCEPT ![p] = file] ELSE foreshadow
    /\ anchors' = IF store = "anchors" THEN [anchors EXCEPT ![p] = file] ELSE anchors
    /\ rules' = IF store = "rules" THEN [rules EXCEPT ![p] = file] ELSE rules
    /\ UNCHANGED <<rc, registryVars, dateRes, immRes, relRes, schedRes, anchorRes, ruleRes, extraVars>>

\* The inputs the guards are run with on these stores.
StoreContext ==
    [date |-> DateString("-", 1, 3), meta_date |-> Absent, episode_date |-> Absent]

StoreCharacters ==
    {<<>>,
     [c \in {"hero"} |->
        CharData({"birth"}, [f \in Fields |-> IF f = "birth" THEN "2002-07-15" ELSE NoValue])]}

StoreText == <<"bae", "gyeong">>

StoresNext ==
    \/ \E store \in StoreNames, file \in {InvalidJson, WrongTypeJson} :
            FoundMalformed(store, "default", file)
    \/ DateCheck("default", StoreContext, 2)
    \/ \E c \in StoreCharacters : ImmutableCheck("default", c)
    \/ RelationCheck("default", 2, 3)
    \/ ScheduleGuard_check("default", 15)
    \/ AnchorCheck("default", StoreText, 5)
    \/ RuleCheck("default", StoreText)

\* C16: on every store, absent or malformed, creating the guard and running
\* its check never ends with an exception other than RetryException.
C16_NeverCrashes ==
    \A res \in {dateRes, immRes, relRes, schedRes, anchorRes, ruleRes} : res.op # "crash"

(***************************************************************************)
(* Emotion classification (src/plugins/emotion_guard.py)                   *)
(***************************************************************************)
\* Largest number of pieces in a generated text span.
MaxSpanLen == 3

\* The score 1.0; scores are counted in 1/6000, which keeps count/total * 5
\* and the 0.1 and 0.05 shares exact for the spans of the model.
ScoreUnit == 6000

\* The keys of EMOTION_KEYWORDS, in order.
Emotions == <<"joy", "sadness", "anger", "fear", "surprise", "disgust", "neutral">>

\* EMOTION_KEYWORDS, cut down to the keywords the spans of the model use.
EMOTION_KEYWORDS ==
    [joy |-> {"happy"}, sadness |-> {"sad"}, anger |-> {"angry"},
     fear |-> {"afraid"}, surprise |-> {"surprised"}, disgust |-> {"disgusted"},
     neutral |-> {"calm"}]

\* A span is its pieces joined by single blanks: a piece is a word, a
\* punctuation mark or a further run of whitespace.
SpanWords == {"happy", "Happy", "sad", "angry", "afraid", "calm", "table"}
Punctuation == "!"
Whitespace == " "

\* The pieces every span up to MaxSpanLen is built from.
Pieces == {"Happy", "calm", "table", Punctuation, Whitespace}

\* Spans with the other emotions, and ten-word spans, in which one keyword
\* scores 0.5, below the cap of 0.8.
LongSpans ==
    {<<"sad", "angry">>, <<"afraid", "table">>, <<"sad", "happy", "calm">>,
     [i \in 1..10 |-> IF i = 10 THEN "happy" ELSE "table"],
     [i \in 1..10 |-> IF i = 10 THEN "happy" ELSE IF i = 9 THEN "calm" ELSE "table"],
     [i \in 1..10 |-> IF i = 10 THEN "calm" ELSE "table"]}

Spans == UNION {[1..n -> Pieces] : n \in 0..MaxSpanLen} \cup LongSpans

\* text.lower() on a piece.
lower_piece(w) == IF w = "Happy" THEN "happy" ELSE w

\* `not text.strip()`
strip_empty(text) == \A i \in 1..Len(text) : text[i] = Whitespace

\* re.findall(r"\b\w+\b", text.lower())
findall_w(text) ==
    LET kept == SelectSeq(text, LAMBDA x : x \in SpanWords)
    IN  [i \in 1..Len(kept) |-> lower_piece(kept[i])]

\* dict.fromkeys(EMOTION_KEYWORDS.keys(), 0.0)
ZeroScores == [e \in {Emotions[i] : i \in 1..Len(Emotions)} |-> 0]

\* emotion_counts[emotion]
emotion_count(words, emotion) ==
    Cardinality({i \in 1..Len(words) : words[i] \in EMOTION_KEYWORDS[emotion]})

min(a, b) == IF a <= b THEN a ELSE b

\* min(count / total_words * 5, 0.8), or 0.0 for a count of 0
raw_score(count, total_words) ==
    IF count > 0
    THEN min((count * 5 * ScoreUnit) \div total_words, (8 * ScoreUnit) \div 10)
    ELSE 0

NoScoreAtAll(emotion_scores) ==
    \A e \in DOMAIN emotion_scores : emotion_scores[e] = 0

\* `sum(emotion_scores[e] for e in emotion_scores if e != "neutral") == 0`
NoEmotionalContent(emotion_scores) ==
    \A e \in DOMAIN emotion_scores \ {"neutral"} : emotion_scores[e] = 0

\* The cross-emotion influences, each taken from the unsmoothed scores, and
\* the final min(score, 1.0).
smoothed(emotion_scores) ==
    LET s == emotion_scores
        add == [joy |-> 0,
                sadness |-> s.fear \div 10,
                anger |-> 0,
                fear |-> (s.sadness \div 10) + (s.anger \div 20),
                surprise |-> s.joy \div 10,
                disgust |-> s.anger \div 20,
                neutral |-> 0]
    IN  [e \in DOMAIN s |-> min(s[e] + add[e], ScoreUnit)]

\* classify_emotions(text)
classify_emotions(text) ==
    LET words == findall_w(text)
        total_words == Len(words)
        raw == [e \in DOMAIN ZeroScores |->
                    raw_score(emotion_count(words, e), total_words)]
        base_neutral == (3 * ScoreUnit) \div 10
        emotion_scores ==
            [raw EXCEPT !.neutral = IF raw.neutral >= base_neutral
                                   THEN raw.neutral ELSE base_neutral]
    IN  IF strip_empty(text) THEN ZeroScores
        ELSE IF words = <<>> THEN ZeroScores
        ELSE IF NoEmotionalContent(emotion_scores)
        THEN [ZeroScores EXCEPT !.neutral = ScoreUnit]
        ELSE smoothed(emotion_scores)

\* A call of classify_emotions on a span.
ClassifyEmotions(text) ==
    /\ emoRes' = [op |-> "classify_emotions", text |-> text,
                  returned |-> classify_emotions(text)]
    /\ UNCHANGED <<rc, registryVars, dateVars, immVars, schedVars, relVars, anchorVars, ruleVars, paceRes, concVars, wrapped>>

EmotionNext == \E text \in Spans : ClassifyEmotions(text)

(***************************************************************************)
(* Claims about the emotion classification                                 *)
(***************************************************************************)
\* Every keyword of EMOTION_KEYWORDS, and those of the six emotions other
\* than neutral.
AllKeywords == UNION {EMOTION_KEYWORDS[e] : e \in DOMAIN EMOTION_KEYWORDS}
EmotionalKeywords == UNION {EMOTION_KEYWORDS[e] : e \in DOMAIN EMOTION_KEYWORDS \ {"neutral"}}

\* The words of a span, lowercased, as a set.
WordsIn(text) == {lower_piece(text[i]) : i \in {j \in 1..Len(text) : text[j] \in SpanWords}}

\* 1.0 on neutral and 0 on every other emotion.
PureNeutral == [e \in DOMAIN ZeroScores |-> IF e = "neutral" THEN ScoreUnit ELSE 0]

MaxUnits == 2

\* The ratio 1.0; ratios are counted in 1/12000, which keeps the divisions
\* by the unit totals, by the number of scenes and the 70/30 blend exact.
PaceUnit == 12000

\* The default configuration (no pacing_config.json in the project).
window == 10
tolerance == PaceUnit \div 4

\* What a scene text is made of, each a terminated sentence of its own, so
\* that joining scenes with a blank merges nothing: a quoted line, an empty
\* pair of quotes, and sentences with an ACTION keyword, a MONOLOG keyword,
\* both, or neither.
Dialog == "dialog"
EmptyQuote == "empty_quote"
ActionSentence == "action"
MonologSentence == "monolog"
BothSentence == "monolog_and_action"
PlainSentence == "plain"
Units == {Dialog, ActionSentence, MonologSentence, BothSentence, PlainSentence}

\* Scene texts; the empty sequence is the empty (or whitespace-only) text.
Scenes == UNION {[1..n -> Units] : n \in 0..MaxUnits}

\* The scenes an episode's second scene is taken from.
SecondScenes == {<<>>, <<PlainSentence>>, <<EmptyQuote, PlainSentence>>, <<Dialog, ActionSentence>>}

SceneLists ==
    {<<>>} \cup {<<s>> : s \in Scenes} \cup {<<s, t>> : s \in Scenes, t \in SecondScenes}

ContentTypes == <<"action", "dialog", "monolog">>

ZeroRatios == [action |-> 0, dialog |-> 0, monolog |-> 0]

\* `not text.strip()`
blank_text(text) == text = <<>>

CountOf(text, kinds) == Cardinality({i \in 1..Len(text) : text[i] \in kinds})

\* _analyze_text_content(text): quoted lines with content count as dialog;
\* of the other sentences, one with a monolog keyword counts as monolog
\* (checked first), else one with an action keyword counts as action.
analyze_text_content(text) ==
    LET dialog_count == CountOf(text, {Dialog})
        monolog_count == CountOf(text, {MonologSentence, BothSentence})
        action_count == CountOf(text, {ActionSentence})
        total_content == action_count + dialog_count + monolog_count
    IN  IF blank_text(text) THEN ZeroRatios
        ELSE IF total_content = 0 THEN ZeroRatios
        ELSE [action |-> (action_count * PaceUnit) \div total_content,
              dialog |-> (dialog_count * PaceUnit) \div total_content,
              monolog |-> (monolog_count * PaceUnit) \div total_content]

\* baseline_ratios = {"action": 0.3, "dialog": 0.4, "monolog": 0.3}
baseline_ratios ==
    [action |-> (3 * PaceUnit) \div 10, dialog |-> (4 * PaceUnit) \div 10,
     monolog |-> (3 * PaceUnit) \div 10]

RECURSIVE SumRatios(_, _)
SumRatios(texts, key) ==
    IF texts = <<>> THEN 0
    ELSE analyze_text_content(Head(texts))[key] + SumRatios(Tail(texts), key)

\* _get_rolling_average(current_episode, scene_texts): the baseline, blended
\* 70/30 with the mean ratios of the non-blank scenes among the first
\* `window` ones.
get_rolling_average(scene_texts) ==
    LET taken == SubSeq(scene_texts, 1, IF Len(scene_texts) <= window
                                        THEN Len(scene_texts) ELSE window)
        analyzed == SelectSeq(taken, LAMBDA t : ~blank_text(t))
        analyzed_scenes == Len(analyzed)
    IN  IF scene_texts # <<>> /\ analyzed_scenes > 0
        THEN [key \in DOMAIN baseline_ratios |->
                 (baseline_ratios[key] * 7
                  + (SumRatios(analyzed, key) \div analyzed_scenes) * 3) \div 10]
        ELSE baseline_ratios

\* " ".join(scene_texts)
RECURSIVE join(_)
join(scene_texts) ==
    IF scene_texts = <<>> THEN <<>> ELSE Head(scene_texts) \o join(Tail(scene_texts))

abs(x) == IF x < 0 THEN 0 - x ELSE x

\* `relative_deviation > tolerance and absolute_deviation > 0.15`, where the
\* relative deviation is absolute / average when average > 0.05 and
\* absolute / tolerance otherwise.
is_violation(current, average) ==
    LET absolute_deviation == abs(current - average)
        relative_over ==
            IF 100 * average > 5 * PaceUnit
            THEN absolute_deviation * PaceUnit > tolerance * average
            ELSE absolute_deviation * PaceUnit > tolerance * tolerance
    IN  relative_over /\ 100 * absolute_deviation > 15 * PaceUnit

\* PacingGuard.check(scene_texts, episode_num)
PacingGuard_check(scene_texts) ==
    LET current_ratios == analyze_text_content(join(scene_texts))
        average_ratios == get_rolling_average(scene_texts)
        violation_list == SelectSeq(ContentTypes,
                                LAMBDA c : is_violation(current_ratios[c], average_ratios[c]))
    IN  IF scene_texts = <<>>
        THEN [op |-> "check", scene_texts |-> scene_texts, current_ratios |-> <<>>,
              average_ratios |-> <<>>, violations |-> <<>>, raised |-> FALSE]
        ELSE [op |-> "check", scene_texts |-> scene_texts,
              current_ratios |-> current_ratios, average_ratios |-> average_ratios,
              violations |-> violation_list, raised |-> violation_list # <<>>]

PacingCheck(scene_texts) ==
    /\ paceRes' = PacingGuard_check(scene_texts)
    /\ UNCHANGED <<rc, registryVars, dateVars, immVars, schedVars, relVars, anchorVars, ruleVars, emoRes, concVars, wrapped>>

PacingNext == \E scene_texts \in SceneLists : PacingCheck(scene_texts)

(***************************************************************************)
(* Claims about the pacing guard                                           *)
(***************************************************************************)
\* The units _analyze_text_content classifies.
ClassifiedUnits == {Dialog, ActionSentence, MonologSentence, BothSentence}

\* C26: an episode whose scene texts are non-empty and hold no classified
\* unit (no quoted line, no sentence with an action or monolog keyword) has
\* all-zero ratios and passes the check.
C26_ZeroUnitsPass ==
    (/\ paceRes.op = "check"
     /\ paceRes.scene_texts # <<>>
     /\ \A i \in 1..Len(paceRes.scene_texts) :
           /\ paceRes.scene_texts[i] # <<>>
           /\ \A j \in 1..Len(paceRes.scene_texts[i]) :
                 paceRes.scene_texts[i][j] \notin ClassifiedUnits) =>
        /\ paceRes.current_ratios = ZeroRatios
        /\ ~paceRes.raised

(***************************************************************************)
(* Two callers on one project's foreshadow ledger: each operation loads    *)
(* the whole file, changes its copy and saves the whole file, with no lock *)
(* in between (src/plugins/foreshadow_scheduler.py)                        *)
(***************************************************************************)
Callers == {"caller_a", "caller_b"}

Idle == [pc |-> "idle"]

\* An operation between its _load_foreshadows and its _save_foreshadows:
\* the copy it will write, whether it will write it, and the updates it
\* will have made when it returns.
InFlight(op, data, saves, updates) ==
    [pc |-> "loaded", op |-> op, data |-> data, saves |-> saves, updates |-> updates]

Scheduled(id, hint) == [kind |-> "scheduled", id |-> id, hint |-> hint, episode |-> 0]
Resolved(id, episode) == [kind |-> "resolved", id |-> id, hint |-> "", episode |-> episode]

\* Another caller is between its load and its save.
OthersInFlight(c) == \E d \in Callers \ {c} : inflight[d].pc = "loaded"

\* schedule_foreshadow up to `data["foreshadows"].append(foreshadow)`; the
\* caller puts its own name in the hint.
schedule_foreshadow_load(c, introduced_ep, random_offset, new_id) ==
    LET data == load_foreshadows(foreshadow[ScheduleProject])
        made == Foreshadow(new_id, c, introduced_ep,
                           calculate_due_episode(introduced_ep, random_offset), {})
    IN  /\ inflight[c].pc = "idle"
        /\ Len(data) < MaxRecords
        /\ new_id \in generate_unique_id(existing_ids(data))
        /\ inflight' = [inflight EXCEPT
                          ![c] = InFlight("schedule_foreshadow", Append(data, made), TRUE,
                                          {Scheduled(new_id, c)})]
        /\ overlapped' = (overlapped \/ OthersInFlight(c))
        /\ UNCHANGED <<rc, registryVars, dateVars, immVars, schedVars, relVars, anchorVars, ruleVars, emoRes, paceRes, done, wrapped>>

\* track_payoff up to the end of its loop.
track_payoff_load(c, episode, content) ==
    LET data == load_foreshadows(foreshadow[ScheduleProject])
        matches == findall(content)
        resolved == {i \in 1..Len(data) : Resolves(data[i], matches)}
        marked == [i \in 1..Len(data) |->
                      IF Resolves(data[i], matches)
                      THEN [data[i] EXCEPT !.payoff = {episode}] ELSE data[i]]
    IN  /\ inflight[c].pc = "idle"
        /\ inflight' = [inflight EXCEPT
                          ![c] = InFlight("track_payoff", marked,
                                          ResolvedAny(matches, resolved),
                                          {Resolved(data[i].id, episode) : i \in resolved})]
        /\ overlapped' = (overlapped \/ OthersInFlight(c))
        /\ UNCHANGED <<rc, registryVars, dateVars, immVars, schedVars, relVars, anchorVars, ruleVars, emoRes, paceRes, done, wrapped>>

\* The rest of either operation: _save_foreshadows(data, project), when the
\* operation saves at all, and the return.
save_and_return(c) ==
    /\ inflight[c].pc = "loaded"
    /\ foreshadow' = IF inflight[c].saves
                     THEN [foreshadow EXCEPT
                             ![ScheduleProject] = save_foreshadows(inflight[c].data)]
                     ELSE foreshadow
    /\ done' = done \cup inflight[c].updates
    /\ inflight' = [inflight EXCEPT ![c] = Idle]
    /\ UNCHANGED <<rc, registryVars, dateVars, immVars, schedRes, relVars, anchorVars, ruleVars, emoRes, paceRes, overlapped, wrapped>>

ConcurrentNext ==
    \/ \E c \in Callers, n \in {IdPool[k] : k \in 1..Len(IdPool)} :
            schedule_foreshadow_load(c, 5, 10, n)
    \/ \E c \in Callers, m \in {"f000001", "f000002"} :
            track_payoff_load(c, 12, <<Marker(m)>>)
    \/ \E c \in Callers : save_and_return(c)

(***************************************************************************)
(* Claims about unserialized ledger operations                             *)
(***************************************************************************)
\* The update of a completed operation is in the ledger: the scheduled
\* record is there, the resolved record has the payoff it was given.
Retained(u) ==
    LET L == Ledger(ScheduleProject)
    IN  \E i \in 1..Len(L) :
            /\ L[i].id = u.id
            /\ u.kind = "scheduled" => L[i].hint = u.hint
            /\ u.kind = "resolved" => L[i].payoff = {u.episode}

\* C29: as long as no two operations on the project's ledger have been in
\* flight at once, the update of every completed schedule_foreshadow and
\* track_payoff is in the ledger.  (That interleaved operations can lose
\* one is the state C29_Witness describes.)
C29_SerializedUpdatesRetained ==
    ~overlapped => \A u \in done : Retained(u)

\* Two operations interleaved between load and save, both returned, and the
\* ledger lacks the update of one of them.
C29_Witness ==
    /\ overlapped
    /\ \A c \in Callers : inflight[c].pc = "idle"
    /\ \E u \in done : ~Retained(u)
    /\ \E u \in done : Retained(u)

(***************************************************************************)
(* Guard checks run through run_with_retry                                 *)
(* (src/core/retry_controller.py around DateGuard.check,                   *)
(* ImmutableGuard.check and ScheduleGuard.check)                           *)
(***************************************************************************)
StatefulGuards == {"date_guard", "immutable_guard", "schedule_guard"}

\* No check has run on the guard's store yet.
NoAttempt == [args |-> <<>>, outcome |-> "none"]

\* Nothing is wrapped: no run has started and no store has been checked.
NotWrapped ==
    [guard |-> "none", args |-> <<>>, last |-> [g \in StatefulGuards |-> NoAttempt]]

\* The arguments the wrapped checks are called with.
DateArgs ==
    {[context |-> [date |-> d, meta_date |-> Absent, episode_date |-> Absent],
      episode_num |-> e] :
        d \in {DateString("-", 1, 3), DateString("-", 1, 5), Absent}, e \in 1..2}

ImmutableArgs ==
    {[current_chars |-> [c \in {"hero"} |-> CharData(I, v)]] :
        I \in {{"birth"}},
        v \in {[f \in Fields |-> IF f = "birth" THEN b ELSE NoValue] : b \in FieldValues}}
    \cup {[current_chars |-> [c \in {"hero"} |->
              CharData({"birth", "blood"}, [f \in Fields |-> "2002-07-15"])]]}

ScheduleArgs == {[current_episode |-> e] : e \in {15, 16}}

ArgsOf(guard) ==
    CASE guard = "date_guard" -> DateArgs
      [] guard = "immutable_guard" -> ImmutableArgs
      [] guard = "schedule_guard" -> ScheduleArgs

\* What func(*args, **kwargs) does when func is the check of a guard that
\* has a result dictionary r: the files afterwards and the outcome of the
\* call (a result returned, the guard's RetryException, or the exception
\* the check does not catch).
CheckOutcome(guard, r) ==
    IF r.op = "crash" THEN [kind |-> "Exception", name |-> r.exception]
    ELSE IF r.raised THEN RetryException("violation", {guard}, guard)
    ELSE [kind |-> "return", value |-> "passed"]

\* func(*args, **kwargs) for the three guards.
GuardCall(guard, args) ==
    CASE guard = "date_guard" ->
            LET r == DateGuard_check(episode_dates[DateProject], args.context,
                                     args.episode_num)
            IN  [dates |-> r[1], snapshot |-> immutable_snapshot[ImmutableProject],
                 outcome |-> CheckOutcome(guard, r[2])]
      [] guard = "immutable_guard" ->
            LET r == ImmutableGuard_check(immutable_snapshot[ImmutableProject],
                                          args.current_chars)
            IN  [dates |-> episode_dates[DateProject], snapshot |-> r[1],
                 outcome |-> CheckOutcome(guard, r[2])]
      [] guard = "schedule_guard" ->
            LET file == foreshadow[ScheduleGuardProject(ScheduleProject)]
                overdue == get_overdue_foreshadows(file, args.current_episode)
            IN  [dates |-> episode_dates[DateProject],
                 snapshot |-> immutable_snapshot[ImmutableProject],
                 outcome |->
                    IF ledger_error(file) # PyNone
                    THEN [kind |-> "Exception", name |-> ledger_error(file)]
                    ELSE IF overdue # <<>>
                    THEN RetryException("violation", {guard}, guard)
                    ELSE [kind |-> "return", value |-> "passed"]]

\* run_with_retry(guard.check, *args, max_retry=max_retry): entry, with
\* UNIT_TEST_MODE and FAST_MODE unset.
run_guard_with_retry(guard, args, max_retry) ==
    /\ rc.pc # "loop"
    /\ rc' = [RcIdle EXCEPT !.pc = "loop", !.max_retry = max_retry]
    /\ wrapped' = [wrapped EXCEPT !.guard = guard, !.args = args]
    /\ UNCHANGED <<registryVars, dateVars, immVars, schedVars, relVars, anchorVars,
                   ruleVars, emoRes, paceRes, concVars>>

\* One iteration of the for loop around the guard's check: the check reads
\* and writes its file, and the controller handles what it raised.
GuardAttempt ==
    /\ rc.pc = "loop"
    /\ LET call == GuardCall(wrapped.guard, wrapped.args)
       IN  /\ episode_dates' = [episode_dates EXCEPT ![DateProject] = call.dates]
           /\ immutable_snapshot' =
                 [immutable_snapshot EXCEPT ![ImmutableProject] = call.snapshot]
           /\ CASE call.outcome.kind = "return" ->
                      rc' = [rc EXCEPT !.pc = "returned", !.result = call.outcome,
                                       !.trace = Append(rc.trace,
                                                        CallEvent(rc.attempt, call.outcome))]
                [] call.outcome.kind = "RetryException" -> OnRetryException(call.outcome)
                [] OTHER -> OnOtherException(call.outcome)
           /\ wrapped' = [wrapped EXCEPT
                            !.last[wrapped.guard] =
                                [args |-> wrapped.args, outcome |-> call.outcome.kind]]
    /\ UNCHANGED <<registryVars, dateRes, immRes, schedVars, relVars, anchorVars,
                   ruleVars, emoRes, paceRes, concVars>>

\* The ledger the schedule guard reads is filled before its first check.
LedgerUnchecked == wrapped.last["schedule_guard"] = NoAttempt /\ rc.pc # "loop"

RetryGuardNext ==
    \/ \E g \in StatefulGuards, m \in 0..MaxRetryArg :
          \E a \in ArgsOf(g) : run_guard_with_retry(g, a, m)
    \/ GuardAttempt
    \/ LedgerUnchecked /\ schedule_foreshadow(ScheduleProject, "hint", 5, 10, IdPool[1])

(***************************************************************************)
(* Claims about guard checks under retry                                   *)
(***************************************************************************)
\* The step is one invocation of the wrapped check.
Invoked == rc.pc = "loop" /\ Len(Calls') = Len(Calls) + 1

\* The check being invoked is the one that last ran on the guard's store.
Repeats == wrapped.last[wrapped.guard].args = wrapped.args

RepeatsOutcome ==
    (Invoked /\ Repeats /\ wrapped.last[wrapped.guard].outcome \in {"return", "RetryException"})
        => Last(Calls').outcome.kind = wrapped.last[wrapped.guard].outcome

FailedRunExhausts ==
    (Len(Calls) >= 1 /\ Calls[1].outcome.kind = "RetryException") =>
        /\ \A i \in 1..Len(Calls) : Calls[i].outcome.kind = "RetryException"
        /\ rc.pc \in {"loop", "raised"}
        /\ rc.pc = "raised" => Len(Calls) = rc.max_retry + 1
        /\ rc.pc = "loop" => Len(Calls) <= rc.max_retry

\* C30: a stateful guard's check run through run_with_retry with unchanged
\* arguments, its store touched by nothing else in between, repeats its
\* outcome: a run whose first attempt raised RetryException sees every
\* retry raise it and ends raising after max_retry+1 attempts, and a check
\* that passed passes again when it is repeated.
C30_OutcomeStable == [][RepeatsOutcome]_vars /\ []FailedRunExhausts

\* An ImmutableGuard run that failed three times in a row and was raised,
\* after the last date check had passed and the last schedule check failed.
C30_Witness ==
    /\ rc.pc = "raised" /\ rc.max_retry = 2 /\ Len(Calls) = 3
    /\ wrapped.guard = "immutable_guard"
    /\ wrapped.last["date_guard"].outcome = "return"
    /\ wrapped.last["schedule_guard"].outcome = "RetryException"

(***************************************************************************)
(* Specifications                                                          *)
(***************************************************************************)
Init ==
    /\ rc = RcIdle
    /\ guards = <<>>
    /\ sys_modules = {}
    /\ regRes = [op |-> "none"]
    /\ pipe = PipeIdle
    /\ episode_dates = [p \in Projects |-> MissingFile]
    /\ dateRes = [op |-> "none"]
    /\ immutable_snapshot = [p \in Projects |-> MissingFile]
    /\ immRes = [op |-> "none"]
    /\ foreshadow = [p \in Projects |-> MissingFile]
    /\ schedRes = [op |-> "none"]
    /\ relation_matrix = [p \in Projects |-> MissingFile]
    /\ relRes = [op |-> "none"]
    /\ anchors = [p \in Projects |-> MissingFile]
    /\ anchorRes = [op |-> "none"]
    /\ rules = [p \in Projects |-> MissingFile]
    /\ ruleRes = [op |-> "none"]
    /\ emoRes = [op |-> "none"]
    /\ paceRes = [op |-> "none"]
    /\ inflight = [c \in Callers |-> Idle]
    /\ done = {}
    /\ overlapped = FALSE
    /\ wrapped = NotWrapped

SpecRetry == Init /\ [][RetryNext]_vars

SpecRegistry == Init /\ [][RegistryNext]_vars

SpecDate == Init /\ [][DateNext]_vars

SpecImmutable == Init /\ [][ImmutableNext]_vars

SpecSchedule == Init /\ [][ScheduleNext]_vars

SpecRelation == Init /\ [][RelationNext]_vars

SpecAnchor == Init /\ [][AnchorNext]_vars

SpecRule == Init /\ [][RuleNext]_vars

SpecProjects == Init /\ [][ProjectsNext]_vars

SpecStores == Init /\ [][StoresNext]_vars

SpecEmotion == Init /\ [][EmotionNext]_vars

SpecPacing == Init /\ [][PacingNext]_vars

SpecConcurrent == Init /\ [][ConcurrentNext]_vars

SpecRetryGuard == Init /\ [][RetryGuardNext]_vars

=============================================================================
